---- MODULE Spec2Model ----
(***************************************************************************)
(* Maine Fisheries Dashboard: the port -> zone lookup (build and apply),   *)
(* the year-over-year categorisation by zone, the zone map, the ETL run,   *)
(* the dashboard cleaner, the schema normalizer and the dashboard filters, *)
(* as state machines over in-memory tables.  A table is a sequence of      *)
(* rows, a row is a record, a text cell is a sequence of one-character     *)
(* strings, and a missing cell is NA.                                      *)
(***************************************************************************)
EXTENDS Integers, Sequences, FiniteSets, TLC

VARIABLES
  columns,    \* the column names of df
  df,         \* the record table handed to build_port_zone_lookup / apply_port_zone_lookup
  pc,         \* "ingest", "built", "failed" or "applied"
  corpus,     \* the table build_port_zone_lookup was called on
  lookup,     \* the table build_port_zone_lookup returned
  error,      \* the exception build_port_zone_lookup raised, or "none"
  overrides,  \* the overrides file apply_port_zone_lookup found (exists, rows)
  out,        \* the table apply_port_zone_lookup returned
  ydf,        \* the landings table handed to yoy_by_zone
  ypc,        \* "ingest" or "done"
  yyear,      \* the year argument of yoy_by_zone (0 for None)
  yout,       \* the table yoy_by_zone returned
  geojson,    \* the features of the boundary file load_geojson reads
  zone_df,    \* the zone totals of the last render_zone_map
  layer,      \* the features _choropleth_layer annotated in the last render
  mprev,      \* the zone totals of the call before the last one on these features
  mpc,        \* "load", "rendered", "again" or "info"
  eargs,      \* the arguments of the ETL run (species selection, --by-species)
  raw,        \* the batch read_raw_csv returned
  edf,        \* df, then df_sel, of the ETL main
  epc,        \* "read", "normalized", "validated", "failed", "master" or "done"
  eerror,     \* what validate raised in the ETL main
  files,      \* the files the ETL main has written, in order
  frame,      \* the last call of validate_frame: its table and what it raised
  cpipe,      \* the cleaner under study: "prepare_dataframe" or "normalize_types"
  cin,        \* the table handed to the cleaner
  cout,       \* what the cleaner made of cin (raised, table)
  cagain,     \* what the cleaner made of its own output
  cpc,        \* "input", "cleaned", "failed" or "again"
  pcolumns,   \* df.columns of the table handed to _pick_col
  pcands,     \* the candidates handed to _pick_col
  presult,    \* what _pick_col returned
  ppc,        \* "columns" or "picked"
  sdf,        \* the table handed to _standardize (columns in order, rows)
  sout,       \* what _standardize returned (raised, cols, rows)
  spc,        \* "input", "standardized" or "raised"
  fdf,        \* the landings table handed to filter_df and to active_ports
  fargs,      \* the filters handed to filter_df
  fout,       \* the table filter_df returned
  fports,     \* the list active_ports returned
  fkept,      \* the table filter_out_zero_ports returned
  fpc         \* "input", "filtered" or "ports"

lookupVars == <<columns, df, pc, corpus, lookup, error, overrides, out>>
yoyVars == <<ydf, ypc, yyear, yout>>
mapVars == <<geojson, zone_df, layer, mprev, mpc>>
\* the stages after the lookup and the year-over-year table
etlVars == <<eargs, raw, edf, epc, eerror, files, frame>>
cleanVars == <<cpipe, cin, cout, cagain, cpc>>
pickVars == <<pcolumns, pcands, presult, ppc>>
stdVars == <<sdf, sout, spc>>
filtVars == <<fdf, fargs, fout, fports, fkept, fpc>>
laterVars == <<mapVars, etlVars, cleanVars, pickVars, stdVars, filtVars>>
vars == <<lookupVars, yoyVars, laterVars>>

InitMapIdle ==
  /\ geojson = <<>>
  /\ zone_df = <<>>
  /\ layer = <<>>
  /\ mprev = <<>>
  /\ mpc = "load"

InitEtlIdle ==
  /\ eargs = [select_all |-> TRUE, species |-> <<>>, by_species |-> FALSE]
  /\ raw = <<>>
  /\ edf = <<>>
  /\ epc = "read"
  /\ eerror = [raised |-> FALSE, error |-> "none", bad |-> <<>>, column |-> ""]
  /\ files = <<>>
  /\ frame = [called |-> FALSE, table |-> <<>>,
              result |-> [raised |-> FALSE, error |-> "none", bad |-> <<>>, column |-> ""]]

InitCleanIdle ==
  /\ cpipe = "normalize_types"
  /\ cin = <<>>
  /\ cout = [raised |-> FALSE, table |-> <<>>]
  /\ cagain = [raised |-> FALSE, table |-> <<>>]
  /\ cpc = "input"

InitPickIdle ==
  /\ pcolumns = <<>>
  /\ pcands = <<>>
  /\ presult = <<"<None>">>
  /\ ppc = "columns"

InitStdIdle ==
  /\ sdf = [cols |-> <<>>, rows |-> <<>>]
  /\ sout = [raised |-> FALSE, cols |-> <<>>, rows |-> <<>>]
  /\ spc = "input"

InitFiltIdle ==
  /\ fdf = <<>>
  /\ fargs = [species |-> {}, year_range |-> <<>>, counties |-> {}, ports |-> {},
              lob_zones |-> {}]
  /\ fout = <<>>
  /\ fports = <<>>
  /\ fkept = <<>>
  /\ fpc = "input"

InitLaterIdle ==
  InitMapIdle /\ InitEtlIdle /\ InitCleanIdle /\ InitPickIdle /\ InitStdIdle /\ InitFiltIdle

(***************************************************************************)
(* Bounds of the model.                                                    *)
(***************************************************************************)
MaxRecords == 3
MaxLandings == 3
MaxFeatures == 2
MaxBatch == 2
MaxCleanRows == 2
MaxColumns == 2
MaxStdRows == 2
MaxFilterRows == 2

(***************************************************************************)
(* Text cells.                                                             *)
(***************************************************************************)
NA == <<"<NA>">>
isna(x) == x = NA

Whitespace == {" "}

\* code point of a character of the model's alphabet (Python compares str by code point)
Ord(c) ==
  CASE c = " " -> 32
    [] c = "A" -> 65
    [] c = "B" -> 66
    [] c = "C" -> 67
    [] c = "P" -> 80
    [] c = "Q" -> 81
    [] c = "a" -> 97
    [] c = "b" -> 98

RECURSIVE lstrip(_)
lstrip(s) == IF s # <<>> /\ Head(s) \in Whitespace THEN lstrip(Tail(s)) ELSE s

RECURSIVE rstrip(_)
rstrip(s) ==
  IF s # <<>> /\ s[Len(s)] \in Whitespace THEN rstrip(SubSeq(s, 1, Len(s) - 1)) ELSE s

\* Series.str.strip(): NA stays NA
str_strip(s) == IF isna(s) THEN NA ELSE lstrip(rstrip(s))

upper_char(c) ==
  CASE c = "a" -> "A" [] c = "b" -> "B" [] c = "c" -> "C" [] c = "g" -> "G"
    [] c = "h" -> "H" [] OTHER -> c

RECURSIVE upper_chars(_)
upper_chars(s) == IF s = <<>> THEN <<>> ELSE <<upper_char(Head(s))>> \o upper_chars(Tail(s))

\* Series.str.upper(): NA stays NA
str_upper(s) == IF isna(s) THEN NA ELSE upper_chars(s)

\* a < b for two text cells, lexicographic by code point
RECURSIVE StrLess(_, _)
StrLess(a, b) ==
  IF b = <<>> THEN FALSE
  ELSE IF a = <<>> THEN TRUE
  ELSE IF Ord(Head(a)) < Ord(Head(b)) THEN TRUE
  ELSE IF Ord(Head(a)) > Ord(Head(b)) THEN FALSE
  ELSE StrLess(Tail(a), Tail(b))

(***************************************************************************)
(* Table helpers.                                                          *)
(***************************************************************************)
RECURSIVE SeqOf(_, _)
SeqOf(f, n) == IF n = 0 THEN <<>> ELSE Append(SeqOf(f, n - 1), f[n])

Rows(t) == {t[i] : i \in 1..Len(t)}

\* a < b for two cells of column col: n is a number, the others are text
CellLess(col, x, y) == IF col = "n" THEN x < y ELSE StrLess(x, y)

\* row a sorts before row b under by, a sequence of (column, ascending) pairs
RECURSIVE RowLess(_, _, _)
RowLess(a, b, by) ==
  IF by = <<>> THEN FALSE
  ELSE LET col == Head(by)[1]
           before == IF Head(by)[2] THEN CellLess(col, a[col], b[col])
                     ELSE CellLess(col, b[col], a[col])
           after == IF Head(by)[2] THEN CellLess(col, b[col], a[col])
                    ELSE CellLess(col, a[col], b[col])
       IN before \/ (~after /\ RowLess(a, b, Tail(by)))

\* DataFrame.sort_values(by, ascending), stable: row i goes after every row that
\* sorts before it, and after every earlier row that does not sort after it
sort_values(t, by) ==
  LET pos(i) == 1 + Cardinality({j \in 1..Len(t) :
                    RowLess(t[j], t[i], by) \/ (~RowLess(t[i], t[j], by) /\ j < i)})
      at == [k \in 1..Len(t) |-> t[CHOOSE i \in 1..Len(t) : pos(i) = k]]
  IN SeqOf(at, Len(t))

\* a < b for two group keys (tuples of text cells), cell by cell
RECURSIVE KeyLess(_, _)
KeyLess(a, b) ==
  IF a = <<>> \/ b = <<>> THEN FALSE
  ELSE StrLess(Head(a), Head(b)) \/ (Head(a) = Head(b) /\ KeyLess(Tail(a), Tail(b)))

\* the group keys of a groupby, in the order groupby (sort=True) yields them
sorted_keys(S) ==
  LET at == [k \in 1..Cardinality(S) |->
               CHOOSE x \in S : Cardinality({y \in S : KeyLess(y, x)}) = k - 1]
  IN SeqOf(at, Cardinality(S))

(***************************************************************************)
(* build_port_zone_lookup                                                  *)
(***************************************************************************)
REQUIRED_COLS == {"port", "lob_zone"}

\* (faulty variant: missing cells filled with "" instead of their rows dropped)
fillna_empty(x) == IF isna(x) THEN <<>> ELSE x
dropna_fill(t, subset) ==
  SeqOf([i \in 1..Len(t) |-> [port |-> fillna_empty(t[i].port),
                               lob_zone |-> fillna_empty(t[i].lob_zone)]], Len(t))
\* df.dropna(subset=[...]): the rows with no missing cell among the subset
dropna(t, subset) == SelectSeq(t, LAMBDA r : \A c \in subset : ~isna(r[c]))

seed_row(r) == [port |-> str_strip(r.port), lob_zone |-> str_upper(str_strip(r.lob_zone))]
seed(t) ==
  LET kept == dropna(t, {"port", "lob_zone"})
  IN SeqOf([i \in 1..Len(kept) |-> seed_row(kept[i])], Len(kept))

\* (faulty variant: the groups in order of first appearance, sort=False)
counts_first_seen(sd) ==
  LET keys == {<<r.port, r.lob_zone>> : r \in Rows(sd)}
      first(k) == CHOOSE i \in 1..Len(sd) :
                    /\ <<sd[i].port, sd[i].lob_zone>> = k
                    /\ \A j \in 1..(i - 1) : <<sd[j].port, sd[j].lob_zone>> # k
      at == [n \in 1..Cardinality(keys) |->
               CHOOSE k \in keys : Cardinality({q \in keys : first(q) < first(k)}) = n - 1]
      size(k) == Cardinality({i \in 1..Len(sd) : sd[i].port = k[1] /\ sd[i].lob_zone = k[2]})
      row(k) == [port |-> k[1], lob_zone |-> k[2], n |-> size(k)]
  IN SeqOf([i \in 1..Cardinality(keys) |-> row(at[i])], Cardinality(keys))
\* seed.groupby(["port", "lob_zone"], as_index=False).size() renamed to n
counts(sd) ==
  LET keys == sorted_keys({<<r.port, r.lob_zone>> : r \in Rows(sd)})
      size(k) == Cardinality({i \in 1..Len(sd) : sd[i].port = k[1] /\ sd[i].lob_zone = k[2]})
      row(k) == [port |-> k[1], lob_zone |-> k[2], n |-> size(k)]
  IN SeqOf([i \in 1..Len(keys) |-> row(keys[i])], Len(keys))

\* (faulty variant: ascending=True)
rank_ascending(cn, r) ==
  1 + Cardinality({q.n : q \in {x \in Rows(cn) : x.port = r.port /\ x.n < r.n}})
\* counts.groupby("port")["n"].rank(method="dense", ascending=False) of row r
rank(cn, r) ==
  1 + Cardinality({q.n : q \in {x \in Rows(cn) : x.port = r.port /\ x.n > r.n}})

\* counts[counts["rank"] == 1]
top_ranked(cn) == SelectSeq(cn, LAMBDA r : rank(cn, r) = 1)

\* (faulty variant: the zones counted over all rows, not the rank-1 rows)
ambiguous_ports_all_rows(cn) ==
  {p \in {r.port : r \in Rows(cn)} :
     Cardinality({r.lob_zone : r \in {x \in Rows(cn) : x.port = p}}) > 1}
\* the ports with more than one zone among the rank-1 rows
ambiguous_ports(cn) ==
  LET top == top_ranked(cn)
  IN {p \in {r.port : r \in Rows(top)} :
        Cardinality({r.lob_zone : r \in {x \in Rows(top) : x.port = p}}) > 1}

with_note(cn) ==
  LET amb == ambiguous_ports(cn)
      row(r) == [port |-> r.port, lob_zone |-> r.lob_zone, n |-> r.n,
                 note |-> IF r.port \in amb THEN "AMBIGUOUS" ELSE ""]
      top == top_ranked(cn)
  IN SeqOf([i \in 1..Len(top) |-> row(top[i])], Len(top))

\* (faulty variants: no drop_duplicates; keep="last")
drop_duplicates_none(t) == t
RECURSIVE drop_duplicates_last(_)
drop_duplicates_last(t) ==
  IF t = <<>> THEN <<>>
  ELSE LET last == t[Len(t)]
           front == SubSeq(t, 1, Len(t) - 1)
       IN Append(drop_duplicates_last(SelectSeq(front, LAMBDA r : r.port # last.port)), last)
\* drop_duplicates(subset=["port"], keep="first")
RECURSIVE drop_duplicates(_)
drop_duplicates(t) ==
  IF t = <<>> THEN <<>>
  ELSE <<Head(t)>> \o drop_duplicates(SelectSeq(Tail(t), LAMBDA r : r.port # Head(t).port))

lookup_row(r) == [port |-> r.port, mapped_zone |-> r.lob_zone, n |-> r.n, note |-> r.note]

\* the table build_port_zone_lookup returns when the required columns are present
build_port_zone_lookup(t) ==
  LET cn == counts(seed(t))
      winners == drop_duplicates(
                   sort_values(with_note(cn), <<<<"port", TRUE>>, <<"n", FALSE>>>>))
      renamed == SeqOf([i \in 1..Len(winners) |-> lookup_row(winners[i])], Len(winners))
  IN sort_values(renamed, <<<<"port", TRUE>>>>)

(***************************************************************************)
(* apply_port_zone_lookup                                                  *)
(***************************************************************************)
RECURSIVE Flatten(_)
Flatten(ss) == IF ss = <<>> THEN <<>> ELSE Head(ss) \o Flatten(Tail(ss))

\* row r with column name set to v
Extend(r, name, v) == [c \in DOMAIN r \cup {name} |-> IF c = name THEN v ELSE r[c]]

\* a.fillna(b), cell by cell
fillna(a, b) == IF isna(a) THEN b ELSE a

\* (faulty variant: the port left unstripped)
copy_no_strip(t, cols) ==
  LET row == [i \in 1..Len(t) |->
                IF "lob_zone" \in cols
                THEN [src |-> i, port |-> t[i].port, lob_zone |-> t[i].lob_zone]
                ELSE [src |-> i, port |-> t[i].port]]
  IN SeqOf(row, Len(t))
\* out = df.copy(); out["port"] = out["port"].astype("string").str.strip()
\* (src is the position of the input row, kept to tell the output rows apart)
copy_strip(t, cols) ==
  LET row == [i \in 1..Len(t) |->
                IF "lob_zone" \in cols
                THEN [src |-> i, port |-> str_strip(t[i].port), lob_zone |-> t[i].lob_zone]
                ELSE [src |-> i, port |-> str_strip(t[i].port)]]
  IN SeqOf(row, Len(t))

\* (faulty variant: how="inner")
merge_inner(left, right, name) ==
  LET matches(l) == SelectSeq(right, LAMBDA x : x.port = l.port)
      joined(l) == SeqOf([j \in 1..Len(matches(l)) |->
                            Extend(l, name, matches(l)[j].mapped_zone)], Len(matches(l)))
  IN Flatten(SeqOf([i \in 1..Len(left) |-> joined(left[i])], Len(left)))
\* left.merge(right[["port", "mapped_zone"]] as name, on="port", how="left"):
\* the left rows in order, one per matching right row, and one with a missing
\* cell when no right row matches; missing keys match each other
merge_left(left, right, name) ==
  LET matches(l) == SelectSeq(right, LAMBDA x : x.port = l.port)
      joined(l) == IF matches(l) = <<>>
                   THEN <<Extend(l, name, NA)>>
                   ELSE SeqOf([j \in 1..Len(matches(l)) |->
                                 Extend(l, name, matches(l)[j].mapped_zone)],
                              Len(matches(l)))
  IN Flatten(SeqOf([i \in 1..Len(left) |-> joined(left[i])], Len(left)))

\* ov["port"] = ov["port"].str.strip()
override_row(r) == [port |-> str_strip(r.port), mapped_zone |-> r.mapped_zone]

\* pd.read_csv(overrides_path) with its port column stripped
read_overrides(ov) == SeqOf([i \in 1..Len(ov.rows) |-> override_row(ov.rows[i])], Len(ov.rows))

\* (faulty variant: the lookup's zone first)
with_overrides_lookup_first(t, ov) ==
  LET m == merge_left(t, read_overrides(ov), "mapped_zone_override")
  IN SeqOf([i \in 1..Len(m) |->
              Extend(m[i], "mapped_zone",
                     fillna(m[i].mapped_zone, m[i].mapped_zone_override))], Len(m))
\* the overrides pass: the override's zone where it has one, else the lookup's
with_overrides(t, ov) ==
  LET m == merge_left(t, read_overrides(ov), "mapped_zone_override")
  IN SeqOf([i \in 1..Len(m) |->
              Extend(m[i], "mapped_zone",
                     fillna(m[i].mapped_zone_override, m[i].mapped_zone))], Len(m))

\* (faulty variant: lob_zone overwritten)
backfill_always(r, cols) == [src |-> r.src, port |-> r.port, lob_zone |-> r.mapped_zone]
\* out["lob_zone"] = out["lob_zone"].fillna(out["mapped_zone"]), the column
\* being created missing when the table has none
backfill(r, cols) ==
  [src |-> r.src, port |-> r.port,
   lob_zone |-> fillna(IF "lob_zone" \in cols THEN r.lob_zone ELSE NA, r.mapped_zone)]

apply_port_zone_lookup(t, cols, lk, ov) ==
  LET base == merge_left(copy_strip(t, cols), lk, "mapped_zone")
      mapped == IF ov.exists THEN with_overrides(base, ov) ELSE base
  IN SeqOf([i \in 1..Len(mapped) |-> backfill(mapped[i], cols)], Len(mapped))

(***************************************************************************)
(* Inputs of the lookup stage.                                             *)
(***************************************************************************)
BuildPorts == {NA, <<"P">>, <<" ", "P">>, <<"Q">>}
BuildZones == {NA, <<"A">>, <<" ", "a">>, <<"B">>}
ApplyPorts == {NA, <<" ", "P">>, <<"Q">>}
ApplyZones == {NA, <<"A">>, <<"b">>}

RecordsOver(cols, ports, zones) ==
  IF "lob_zone" \in cols
  THEN {[port |-> p, lob_zone |-> z] : p \in ports, z \in zones}
  ELSE {[port |-> p] : p \in ports}

NoOverrides == [exists |-> FALSE, rows |-> <<>>]
OverrideRows ==
  {[port |-> <<"P", " ">>, mapped_zone |-> <<"C">>],
   [port |-> <<"P">>, mapped_zone |-> NA],
   [port |-> NA, mapped_zone |-> <<"C">>]}
OverrideFiles ==
  {NoOverrides} \cup
  {[exists |-> TRUE, rows |-> t] :
     t \in {<<>>} \cup {<<r>> : r \in OverrideRows}
            \cup {<<r, q>> : r \in OverrideRows, q \in OverrideRows}}

(***************************************************************************)
(* The lookup stage as a state machine.                                    *)
(***************************************************************************)
InitLookup ==
  /\ columns \in {{"port", "lob_zone"}, {"port"}}
  /\ df = <<>>
  /\ pc = "ingest"
  /\ corpus = <<>>
  /\ lookup = <<>>
  /\ error = "none"
  /\ overrides = NoOverrides
  /\ out = <<>>

\* one more record in the table before the build
Ingest(ports, zones) ==
  /\ pc = "ingest"
  /\ Len(df) < MaxRecords
  /\ \E r \in RecordsOver(columns, ports, zones) : df' = Append(df, r)
  /\ UNCHANGED <<columns, pc, corpus, lookup, error, overrides, out>>

\* lookup = build_port_zone_lookup(df)
Build ==
  /\ pc = "ingest"
  /\ corpus' = df
  /\ IF REQUIRED_COLS \ columns # {}
     THEN /\ error' = "ValueError"
          /\ pc' = "failed"
          /\ UNCHANGED lookup
     ELSE /\ lookup' = build_port_zone_lookup(df)
          /\ pc' = "built"
          /\ UNCHANGED error
  /\ UNCHANGED <<columns, df, overrides, out>>

\* the table the lookup is applied to may hold records the build never saw
AppendAfterBuild(ports, zones) ==
  /\ pc = "built"
  /\ Len(df) < MaxRecords
  /\ \E r \in RecordsOver(columns, ports, zones) : df' = Append(df, r)
  /\ UNCHANGED <<columns, pc, corpus, lookup, error, overrides, out>>

\* ... and may have no lob_zone column at all
SelectPortColumn ==
  /\ pc = "built"
  /\ "lob_zone" \in columns
  /\ columns' = {"port"}
  /\ df' = SeqOf([i \in 1..Len(df) |-> [port |-> df[i].port]], Len(df))
  /\ UNCHANGED <<pc, corpus, lookup, error, overrides, out>>

\* out = apply_port_zone_lookup(df, lookup, overrides_path)
Apply ==
  /\ pc = "built"
  /\ \E ov \in OverrideFiles :
       /\ overrides' = ov
       /\ out' = apply_port_zone_lookup(df, columns, lookup, ov)
  /\ pc' = "applied"
  /\ UNCHANGED <<columns, df, corpus, lookup, error>>

InitYoyIdle ==
  /\ ydf = <<>>
  /\ ypc = "ingest"
  /\ yyear = 0
  /\ yout = <<>>

InitBuild == InitLookup /\ InitYoyIdle /\ InitLaterIdle
NextBuild ==
  \/ Ingest(BuildPorts, BuildZones) /\ UNCHANGED <<yoyVars, laterVars>>
  \/ Build /\ UNCHANGED <<yoyVars, laterVars>>
SpecBuild == InitBuild /\ [][NextBuild]_vars

InitApply == InitLookup /\ InitYoyIdle /\ InitLaterIdle
NextApply ==
  \/ Ingest(ApplyPorts, ApplyZones) /\ UNCHANGED <<yoyVars, laterVars>>
  \/ Build /\ UNCHANGED <<yoyVars, laterVars>>
  \/ AppendAfterBuild(ApplyPorts, ApplyZones) /\ UNCHANGED <<yoyVars, laterVars>>
  \/ SelectPortColumn /\ UNCHANGED <<yoyVars, laterVars>>
  \/ Apply /\ UNCHANGED <<yoyVars, laterVars>>
SpecApply == InitApply /\ [][NextApply]_vars

(***************************************************************************)
(* yoy_by_zone (species=None: no species filter).  A percentage is None,   *)
(* NaN or the exact fraction num/den; the yoy_label column, a formatting   *)
(* of yoy_pct, is left out.                                                *)
(***************************************************************************)
\* zero_band = 0.5, as the fraction ZeroBandNum / ZeroBandDen
ZeroBandNum == 1
ZeroBandDen == 2

PctNone == [kind |-> "None", num |-> 0, den |-> 1]
PctNaN == [kind |-> "NaN", num |-> 0, den |-> 1]

Abs(x) == IF x < 0 THEN 0 - x ELSE x

RECURSIVE SumWeights(_)
SumWeights(t) == IF t = <<>> THEN 0 ELSE Head(t).weight + SumWeights(Tail(t))

\* f["zone"] = f["zone"].astype("string").str.strip().str.upper()
zone_upper(t) ==
  SeqOf([i \in 1..Len(t) |-> [zone |-> str_upper(str_strip(t[i].zone)), year |-> t[i].year,
                               weight |-> t[i].weight]], Len(t))

\* year = int(f["year"].dropna().max())
max_year(t) == CHOOSE y \in {r.year : r \in Rows(t)} : \A r \in Rows(t) : r.year <= y

\* f[f["year"] == y].groupby("zone", dropna=True)["weight"].sum(): its index
zones_of(t, y) == {r.zone : r \in {x \in Rows(t) : x.year = y /\ ~isna(x.zone)}}
\* ... and its value at zone z
weight_sum(t, y, z) == SumWeights(SelectSeq(t, LAMBDA r : r.year = y /\ r.zone = z))

\* pd.concat([cur, prev], axis=1).fillna(0.0).reset_index(): the zones of cur in
\* order, then those of prev alone; an absent total becomes 0.0
concat_fillna(t, y) ==
  LET cur == sorted_keys({<<z>> : z \in zones_of(t, y)})
      prev == sorted_keys({<<z>> : z \in zones_of(t, y - 1) \ zones_of(t, y)})
      idx == cur \o prev
  IN SeqOf([i \in 1..Len(idx) |->
              [zone |-> idx[i][1], weight_cur |-> weight_sum(t, y, idx[i][1]),
               weight_prev |-> weight_sum(t, y - 1, idx[i][1])]], Len(idx))

pct(c, p) ==
  IF p = 0 THEN PctNone ELSE [kind |-> "float", num |-> (c - p) * 100, den |-> p]

\* out.apply(..., axis=1) collects the row results in a new Series, whose dtype is
\* inferred: object (None kept) when every result is None, float64 (None stored
\* as NaN) as soon as one result is a float
apply_rows(t) ==
  LET results == [i \in 1..Len(t) |-> pct(t[i].weight_cur, t[i].weight_prev)]
      anyFloat == \E i \in 1..Len(t) : results[i].kind = "float"
  IN SeqOf([i \in 1..Len(t) |->
              IF anyFloat /\ results[i].kind = "None" THEN PctNaN ELSE results[i]], Len(t))

cat_band_inclusive(p) ==
  IF p.kind = "None" THEN "no_baseline"
  ELSE IF p.kind # "NaN" /\ Abs(p.num) * ZeroBandDen <= ZeroBandNum * Abs(p.den)
  THEN "no_change"
  ELSE IF p.kind # "NaN" /\ ((p.num > 0 /\ p.den > 0) \/ (p.num < 0 /\ p.den < 0))
  THEN "increase"
  ELSE "decrease"

\* cat(p): every comparison with NaN is False
cat(p) ==
  IF p.kind = "None" THEN "no_baseline"
  ELSE IF p.kind # "NaN" /\ Abs(p.num) * ZeroBandDen < ZeroBandNum * Abs(p.den)
  THEN "no_change"
  ELSE IF p.kind # "NaN" /\ ((p.num > 0 /\ p.den > 0) \/ (p.num < 0 /\ p.den < 0))
  THEN "increase"
  ELSE "decrease"

EmptyYoy == <<>>

yoy_by_zone(t, year) ==
  LET f == zone_upper(t)
  IN IF year = 0 /\ f = <<>>
     THEN EmptyYoy
     ELSE LET y == IF year = 0 THEN max_year(f) ELSE year
              base == concat_fillna(f, y)
              pcts == apply_rows(base)
              row == [i \in 1..Len(base) |->
                        [zone |-> base[i].zone, weight_cur |-> base[i].weight_cur,
                         weight_prev |-> base[i].weight_prev, yoy_pct |-> pcts[i],
                         category |-> cat(pcts[i])]]
          IN SeqOf(row, Len(base))

YoyZones == {NA, <<"A">>, <<"b">>}
YoyYears == {2022, 2023}
YoyWeights == {0, 200, 201}
YoyYearArgs == {0, 2023}

InitYoy ==
  /\ ydf = <<>>
  /\ ypc = "ingest"
  /\ yyear = 0
  /\ yout = <<>>

\* one more landings row in the table
AddLanding ==
  /\ ypc = "ingest"
  /\ Len(ydf) < MaxLandings
  /\ \E z \in YoyZones, y \in YoyYears, w \in YoyWeights :
       ydf' = Append(ydf, [zone |-> z, year |-> y, weight |-> w])
  /\ UNCHANGED <<ypc, yyear, yout>>

\* yout = yoy_by_zone(ydf, None, year)
YoyByZone ==
  /\ ypc = "ingest"
  /\ \E year \in YoyYearArgs :
       /\ yyear' = year
       /\ yout' = yoy_by_zone(ydf, year)
  /\ ypc' = "done"
  /\ UNCHANGED ydf

InitLookupIdle ==
  /\ columns = {"port", "lob_zone"}
  /\ df = <<>>
  /\ pc = "ingest"
  /\ corpus = <<>>
  /\ lookup = <<>>
  /\ error = "none"
  /\ overrides = NoOverrides
  /\ out = <<>>

InitYoyStage == InitLookupIdle /\ InitYoy /\ InitLaterIdle
NextYoy ==
  \/ AddLanding /\ UNCHANGED <<lookupVars, laterVars>>
  \/ YoyByZone /\ UNCHANGED <<lookupVars, laterVars>>
SpecYoy == InitYoyStage /\ [][NextYoy]_vars

(***************************************************************************)
(* Properties of build_port_zone_lookup, stated over the table it was      *)
(* called on (corpus) and the table it returned (lookup).                  *)
(***************************************************************************)
\* the records that carry both a port and a zone
Complete(t) == {i \in 1..Len(t) : ~isna(t[i].port) /\ ~isna(t[i].lob_zone)}
TrimmedPort(r) == str_strip(r.port)
ZoneLetter(r) == str_upper(str_strip(r.lob_zone))
PortsOf(t) == {TrimmedPort(t[i]) : i \in Complete(t)}
ZonesOf(t, p) == {ZoneLetter(t[i]) : i \in {j \in Complete(t) : TrimmedPort(t[j]) = p}}
Count(t, p, z) ==
  Cardinality({i \in Complete(t) : TrimmedPort(t[i]) = p /\ ZoneLetter(t[i]) = z})
TiedZones(t, p) ==
  {z \in ZonesOf(t, p) : \A y \in ZonesOf(t, p) : Count(t, p, y) <= Count(t, p, z)}
Earliest(Z) == CHOOSE z \in Z : \A y \in Z : ~StrLess(y, z)
Built == pc = "built" \/ pc = "applied"

\* C1: a port whose maximum (port, zone) count is shared by two or more zones is
\* in the lookup, mapped to the alphabetically earliest of the tied zones.
C1_TieBreakEarliest ==
  Built =>
    \A p \in PortsOf(corpus) :
      Cardinality(TiedZones(corpus, p)) >= 2 =>
        /\ \E i \in 1..Len(lookup) : lookup[i].port = p
        /\ \A i \in 1..Len(lookup) :
             lookup[i].port = p => lookup[i].mapped_zone = Earliest(TiedZones(corpus, p))

\* a tie whose later zone comes first in the corpus
C1_Witness ==
  /\ pc = "built"
  /\ \E i \in 1..Len(lookup) :
       /\ Cardinality(TiedZones(corpus, lookup[i].port)) >= 2
       /\ lookup[i].mapped_zone = <<"A">>
       /\ corpus[1].lob_zone = <<"B">>
       /\ TrimmedPort(corpus[1]) = lookup[i].port

\* C2: a lookup row's note is "AMBIGUOUS" exactly when two or more zones share
\* the maximum count of its port, and "" otherwise.
C2_AmbiguousIffTie ==
  Built =>
    \A i \in 1..Len(lookup) :
      lookup[i].note =
        IF Cardinality(TiedZones(corpus, lookup[i].port)) >= 2 THEN "AMBIGUOUS" ELSE ""

\* an ambiguous port beside a port that is not
C2_Witness ==
  /\ pc = "built"
  /\ \E i, j \in 1..Len(lookup) : lookup[i].note = "AMBIGUOUS" /\ lookup[j].note = ""

\* C3: a lookup row's zone has a count no smaller than any zone of its port, and
\* the row's n is that count.
C3_DominantZone ==
  Built =>
    \A i \in 1..Len(lookup) :
      /\ lookup[i].mapped_zone \in ZonesOf(corpus, lookup[i].port)
      /\ \A z \in ZonesOf(corpus, lookup[i].port) :
           Count(corpus, lookup[i].port, z) <= Count(corpus, lookup[i].port, lookup[i].mapped_zone)
      /\ lookup[i].n = Count(corpus, lookup[i].port, lookup[i].mapped_zone)

\* a port with a majority zone and a minority zone
C3_Witness ==
  /\ pc = "built"
  /\ \E i \in 1..Len(lookup) :
       /\ lookup[i].n = 2
       /\ \E z \in ZonesOf(corpus, lookup[i].port) : Count(corpus, lookup[i].port, z) = 1

\* C4: the lookup has exactly one row for each trimmed port of a record that
\* carries both port and zone, and no other row.
C4_OneRowPerPort ==
  Built =>
    /\ {lookup[i].port : i \in 1..Len(lookup)} = PortsOf(corpus)
    /\ \A i, j \in 1..Len(lookup) : lookup[i].port = lookup[j].port => i = j

\* two spellings of one port with tied zones, beside another port
C4_Witness ==
  /\ pc = "built"
  /\ Len(lookup) = 2
  /\ \E i, j \in Complete(corpus) :
       /\ corpus[i].port # corpus[j].port
       /\ TrimmedPort(corpus[i]) = TrimmedPort(corpus[j])
       /\ ZoneLetter(corpus[i]) # ZoneLetter(corpus[j])

\* C8: on a table with the required columns the build raises nothing; with no
\* record carrying both port and zone (the empty table included) the lookup is
\* empty; and a row's n counts only records that carry both.
C8_EmptyCorpusEmptyLookup ==
  (pc # "ingest" /\ REQUIRED_COLS \subseteq columns) =>
    /\ Built
    /\ error = "none"
    /\ Complete(corpus) = {} => lookup = <<>>
    /\ \A i \in 1..Len(lookup) :
         /\ ~isna(lookup[i].port) /\ ~isna(lookup[i].mapped_zone)
         /\ lookup[i].n = Count(corpus, lookup[i].port, lookup[i].mapped_zone)

\* a corpus of records each missing its port or its zone
C8_Witness ==
  /\ pc = "built"
  /\ Len(corpus) >= 2
  /\ Complete(corpus) = {}
  /\ \E i \in 1..Len(corpus) : ~isna(corpus[i].port)
  /\ \E i \in 1..Len(corpus) : ~isna(corpus[i].lob_zone)
  /\ lookup = <<>>

\* the corpus with its records i and j exchanged
Exchanged(i, j) ==
  SeqOf([k \in 1..Len(corpus) |-> corpus[IF k = i THEN j ELSE IF k = j THEN i ELSE k]],
        Len(corpus))

\* C29: the lookup depends only on the multiset of the records: the build of the
\* corpus with any two records exchanged is the same table, row by row, in the same
\* port order (every reordering is a chain of exchanges, and every corpus of the
\* chain is a corpus of the model).
C29_BuildIgnoresOrder ==
  pc = "built" =>
    \A i \in 1..Len(corpus) :
      \A j \in (i + 1)..Len(corpus) : build_port_zone_lookup(Exchanged(i, j)) = lookup
\* a tied port whose later-sorting zone comes first in the corpus
C29_Witness ==
  /\ pc = "built"
  /\ Len(corpus) >= 2
  /\ corpus[1] = [port |-> <<"P">>, lob_zone |-> <<"B">>]
  /\ corpus[2] = [port |-> <<" ", "P">>, lob_zone |-> <<" ", "a">>]
  /\ \E j \in 1..Len(lookup) :
       lookup[j] = [port |-> <<"P">>, mapped_zone |-> <<"A">>, n |-> 1, note |-> "AMBIGUOUS"]

(***************************************************************************)
(* Properties of apply_port_zone_lookup, stated over the table it was      *)
(* called on (df), the lookup, the overrides file and the table returned.  *)
(***************************************************************************)
\* the zone record i of df came in with
InZone(i) == IF "lob_zone" \in columns THEN df[i].lob_zone ELSE NA
\* the join key of record i of df
Key(i) == str_strip(df[i].port)
LookupRowsFor(p) == {j \in 1..Len(lookup) : lookup[j].port = p}
OverrideRowsFor(p) ==
  {j \in 1..Len(overrides.rows) : str_strip(overrides.rows[j].port) = p}
OutRowsOf(i) == {k \in 1..Len(out) : out[k].src = i}
LookupZone(p) ==
  IF LookupRowsFor(p) = {} THEN NA ELSE lookup[CHOOSE j \in LookupRowsFor(p) : TRUE].mapped_zone
\* the zones the lookup and the overrides together map port p to
MappedZones(p) ==
  IF OverrideRowsFor(p) = {}
  THEN {LookupZone(p)}
  ELSE {fillna(overrides.rows[j].mapped_zone, LookupZone(p)) : j \in OverrideRowsFor(p)}

\* port p is in the lookup, and the overrides table, keyed by port, maps it to
\* the different zone z
Overridden(p, z) ==
  /\ overrides.exists
  /\ LookupRowsFor(p) # {}
  /\ Cardinality(OverrideRowsFor(p)) = 1
  /\ \E j \in OverrideRowsFor(p) : overrides.rows[j].mapped_zone = z
  /\ ~isna(z)
  /\ z # LookupZone(p)

\* C5: with an overrides table supplied, a record apply has to resolve (its zone
\* is missing), whose port is in the lookup under one zone and in the overrides
\* under another, comes out with the override's zone, never the lookup's.
C5_OverrideWins ==
  pc = "applied" =>
    \A i \in 1..Len(df) :
      \A z \in {overrides.rows[j].mapped_zone : j \in 1..Len(overrides.rows)} :
        (isna(InZone(i)) /\ Overridden(Key(i), z)) =>
          /\ OutRowsOf(i) # {}
          /\ \A k \in OutRowsOf(i) : out[k].lob_zone = z /\ out[k].lob_zone # LookupZone(Key(i))

C5_Witness ==
  /\ pc = "applied"
  /\ \E i \in 1..Len(df) :
       /\ isna(InZone(i))
       /\ Overridden(Key(i), <<"C">>)
       /\ LookupZone(Key(i)) = <<"A">>
       /\ \E k \in OutRowsOf(i) : out[k].lob_zone = <<"C">>

\* C6: a record that came in with a zone goes out with that zone, whatever its
\* port is mapped to; a record with a port and no zone goes out with the zone
\* mapped for its port (by the overrides where they have one, else by the lookup).
C6_BackfillOnlyMissing ==
  pc = "applied" =>
    \A i \in 1..Len(df) :
      /\ ~isna(df[i].port) => OutRowsOf(i) # {}
      /\ \A k \in OutRowsOf(i) :
           /\ ~isna(InZone(i)) => out[k].lob_zone = InZone(i)
           /\ (isna(InZone(i)) /\ ~isna(df[i].port)) => out[k].lob_zone \in MappedZones(Key(i))

\* a record that keeps a zone other than the one its port is mapped to
C6_Witness ==
  /\ pc = "applied"
  /\ \E i \in 1..Len(df) :
       /\ ~isna(InZone(i))
       /\ ~isna(LookupZone(Key(i)))
       /\ LookupZone(Key(i)) # InZone(i)
       /\ \E k \in OutRowsOf(i) : out[k].lob_zone = InZone(i)
  /\ \E i \in 1..Len(df) :
       /\ isna(InZone(i))
       /\ \E k \in OutRowsOf(i) : ~isna(out[k].lob_zone)

\* C7: a record whose port has no row in the lookup and none in the overrides
\* goes out once, with the zone it came in with (missing stays missing), and
\* nothing is raised; with an empty lookup and no overrides that is every record.
C7_GapPassesThrough ==
  pc = "applied" =>
    /\ error = "none"
    /\ \A i \in 1..Len(df) :
         (LookupRowsFor(Key(i)) = {} /\ OverrideRowsFor(Key(i)) = {}) =>
           /\ Cardinality(OutRowsOf(i)) = 1
           /\ \A k \in OutRowsOf(i) : out[k].lob_zone = InZone(i)

\* a zone-missing record of a port the non-empty lookup does not know
C7_Witness ==
  /\ pc = "applied"
  /\ lookup # <<>>
  /\ overrides.exists
  /\ overrides.rows # <<>>
  /\ \E i \in 1..Len(df) :
       /\ ~isna(df[i].port)
       /\ isna(InZone(i))
       /\ LookupRowsFor(Key(i)) = {}
       /\ OverrideRowsFor(Key(i)) = {}
       /\ \E k \in OutRowsOf(i) : isna(out[k].lob_zone)

\* the ports with exactly one zone in the corpus the lookup was built from
SingleZonePorts == {p \in PortsOf(corpus) : Cardinality(ZonesOf(corpus, p)) = 1}
\* no override maps port p to a zone
NotOverridden(p) == \A j \in OverrideRowsFor(p) : isna(overrides.rows[j].mapped_zone)

\* C9: a port with exactly one zone in the corpus has a lookup row that is not
\* flagged and carries that zone, and apply (no override mapping the port)
\* gives a zone-missing record of that port exactly that zone.
C9_SingleZoneEndToEnd ==
  Built =>
    \A p \in SingleZonePorts :
      /\ \E j \in LookupRowsFor(p) :
           lookup[j].note = "" /\ {lookup[j].mapped_zone} = ZonesOf(corpus, p)
      /\ (pc = "applied" /\ NotOverridden(p)) =>
           \A i \in 1..Len(df) :
             (Key(i) = p /\ isna(InZone(i))) =>
               /\ OutRowsOf(i) # {}
               /\ \A k \in OutRowsOf(i) : {out[k].lob_zone} = ZonesOf(corpus, p)

C9_Witness ==
  /\ pc = "applied"
  /\ \E i \in 1..Len(df) :
       /\ Key(i) \in SingleZonePorts
       /\ df[i].port # Key(i)
       /\ isna(InZone(i))
       /\ NotOverridden(Key(i))
       /\ \E k \in OutRowsOf(i) : out[k].lob_zone = <<"B">>

\* C30: the build and the apply leave the record table and the lookup as they
\* were, and the apply returns one record per record of its table, in the same
\* order, with or without an overrides table.
C30_NoMutationNoDuplication ==
  [][/\ (pc = "ingest" /\ pc' \in {"built", "failed"}) => df' = df
     /\ (pc = "built" /\ pc' = "applied")
        => /\ df' = df /\ lookup' = lookup
           /\ Len(out') = Len(df)
           /\ \A i \in 1..Len(df) : out'[i].src = i]_vars

(***************************************************************************)
(* Properties of yoy_by_zone.                                              *)
(***************************************************************************)
\* C10: every zone of the output whose prior-year total is zero or absent has
\* category no_baseline and no percentage, whatever the other zones' totals.
C10_NoBaselineWhenPriorZero ==
  ypc = "done" =>
    \A i \in 1..Len(yout) :
      yout[i].weight_prev = 0 =>
        yout[i].category = "no_baseline" /\ yout[i].yoy_pct.kind = "None"

\* the category the banding rule gives current total c against a non-zero prior
\* total p: |(c - p) / p * 100| against the band, then the sign of the change
Banded(c, p) ==
  IF Abs(c - p) * 100 * ZeroBandDen < ZeroBandNum * Abs(p) THEN "no_change"
  ELSE IF (c - p) * p > 0 THEN "increase"
  ELSE "decrease"

\* C11: a zone with a non-zero prior total is no_change when the magnitude of its
\* percentage change is strictly below the band, otherwise increase when the change
\* is positive and decrease when it is negative; a magnitude equal to the band is
\* not no_change.
C11_BandIsStrict ==
  ypc = "done" =>
    \A i \in 1..Len(yout) :
      yout[i].weight_prev # 0 =>
        yout[i].category = Banded(yout[i].weight_cur, yout[i].weight_prev)

\* a zone whose change is exactly the band (201 against 200 is 0.5 percent)
C11_Witness ==
  /\ ypc = "done"
  /\ \E i \in 1..Len(yout) :
       /\ yout[i].weight_prev = 200
       /\ yout[i].weight_cur = 201
       /\ yout[i].category = "increase"

(***************************************************************************)
(* The zone map: render_zone_map and _choropleth_layer.  A GeoJSON         *)
(* property value is absent, null, a string or an integer; val holds its   *)
(* str() text.  A feature is its properties and its geometry; a missing    *)
(* or null "properties" member is read as {} and so is the empty           *)
(* dictionary here.                                                        *)
(***************************************************************************)
Absent == [kind |-> "absent", val |-> <<>>]
Null == [kind |-> "null", val |-> <<>>]
StrVal(s) == [kind |-> "str", val |-> s]
IntVal(digits) == [kind |-> "int", val |-> digits]

\* Python truth value: None, "" and 0 are false
truthy(v) == (v.kind = "str" /\ v.val # <<>>) \/ (v.kind = "int" /\ v.val # <<"0">>)

\* props.get(name)
props_get(props, name) == IF props[name].kind = "absent" THEN Null ELSE props[name]

\* a or b
py_or(a, b) == IF truthy(a) THEN a ELSE b

zone_property_guess(props) ==
  py_or(props_get(props, "ZONE"),
  py_or(props_get(props, "zone"),
  py_or(props_get(props, "Zone"),
  py_or(props_get(props, "ZONE_ID"),
  py_or(props_get(props, "LOB_ZONE"), props_get(props, "NAME"))))))

\* z = props.get("ZONE") or props.get("zone") or props.get("Zone")
\*       or props.get("ZONE_ID") or props.get("LOB_ZONE")
zone_property(props) ==
  py_or(props_get(props, "ZONE"),
  py_or(props_get(props, "zone"),
  py_or(props_get(props, "Zone"),
  py_or(props_get(props, "ZONE_ID"), props_get(props, "LOB_ZONE")))))

\* str(z).strip().upper() if z is not None else None
zone_key_of(z) == IF z.kind = "null" THEN Null ELSE StrVal(upper_chars(str_strip(z.val)))

\* first loop of _choropleth_layer: props["__zone_key__"] = ...
with_zone_key(props) == [props EXCEPT !.zone_key = zone_key_of(zone_property(props))]

\* join["__zone_key__"] = join["zone"].astype(str).str.upper().str.strip()
join_keys(zdf) ==
  SeqOf([i \in 1..Len(zdf) |->
           [zone_key |-> str_strip(upper_chars(zdf[i].zone)),
            metric_total |-> zdf[i].metric_total]], Len(zdf))

\* totals = {r["__zone_key__"]: float(r["metric_total"]) for _, r in join.iterrows()}
\* (a later row replaces an earlier one of the same key): its keys ...
totals_keys(join) == {join[i].zone_key : i \in 1..Len(join)}
\* ... and totals.get(key, 0.0), for the key of a feature (None is never a key)
totals_get(join, key) ==
  IF key.kind = "str" /\ key.val \in totals_keys(join)
  THEN LET last == CHOOSE i \in 1..Len(join) :
                     /\ join[i].zone_key = key.val
                     /\ \A j \in (i + 1)..Len(join) : join[j].zone_key # key.val
       IN join[last].metric_total
  ELSE 0

\* max_val = max(totals.values()) if totals else 1.0
max_val(join) ==
  IF join = <<>> THEN 1
  ELSE LET vals == {totals_get(join, StrVal(k)) : k \in totals_keys(join)}
       IN CHOOSE m \in vals : \A v \in vals : v <= m

Min(a, b) == IF a < b THEN a ELSE b

\* intensity = 30 + int(200 * (val / max_val)) if max_val > 0 else 30
\* fill_color = [15, 108, 141, min(255, intensity + 25)]
fill_color(val, mx) ==
  LET intensity == IF mx > 0 THEN 30 + ((200 * val) \div mx) ELSE 30
  IN <<15, 108, 141, Min(255, intensity + 25)>>

\* (the features rebuilt from their properties alone)
choropleth_layer_no_geometry(features, zdf) ==
  LET keyed == [i \in 1..Len(features) |-> with_zone_key(features[i].properties)]
      join == join_keys(zdf)
      mx == max_val(join)
  IN SeqOf([i \in 1..Len(features) |->
              LET val == totals_get(join, keyed[i].zone_key)
              IN [properties |-> [keyed[i] EXCEPT !.metric_total = <<val>>,
                                                  !.fill_color = fill_color(val, mx)],
                  geometry |-> 0]], Len(features))

\* _choropleth_layer(geojson, zone_df): the features it leaves in geojson
choropleth_layer(features, zdf) ==
  LET keyed == [i \in 1..Len(features) |-> with_zone_key(features[i].properties)]
      join == join_keys(zdf)
      mx == max_val(join)
  IN SeqOf([i \in 1..Len(features) |->
              LET val == totals_get(join, keyed[i].zone_key)
              IN [properties |-> [keyed[i] EXCEPT !.metric_total = <<val>>,
                                                  !.fill_color = fill_color(val, mx)],
                  geometry |-> features[i].geometry]], Len(features))

\* the properties a feature of the boundary file may carry
EmptyProps ==
  [ZONE |-> Absent, zone |-> Absent, Zone |-> Absent, ZONE_ID |-> Absent,
   LOB_ZONE |-> Absent, NAME |-> Absent,
   zone_key |-> Absent, metric_total |-> <<>>, fill_color |-> <<>>]
PropChoices ==
  {EmptyProps,
   [EmptyProps EXCEPT !.NAME = StrVal(<<"A">>)],
   [EmptyProps EXCEPT !.ZONE_ID = IntVal(<<"1">>)],
   [EmptyProps EXCEPT !.ZONE_ID = IntVal(<<"7">>)],
   [EmptyProps EXCEPT !.ZONE_ID = IntVal(<<"0">>)],
   [EmptyProps EXCEPT !.ZONE_ID = StrVal(<<"A">>)],
   [EmptyProps EXCEPT !.ZONE = StrVal(<<" ", "a">>)],
   [EmptyProps EXCEPT !.zone = StrVal(<<"B">>)],
   [EmptyProps EXCEPT !.ZONE = StrVal(<<>>), !.ZONE_ID = StrVal(<<"B">>)],
   [EmptyProps EXCEPT !.LOB_ZONE = StrVal(<<>>)],
   [EmptyProps EXCEPT !.Zone = StrVal(<<"C">>), !.LOB_ZONE = StrVal(<<"A">>)],
   [EmptyProps EXCEPT !.ZONE = Null, !.NAME = StrVal(<<"B">>)]}

\* the tables zone_totals returns: one row per zone, in zone order
ZoneTables ==
  {<<>>,
   <<[zone |-> <<"A">>, metric_total |-> 10]>>,
   <<[zone |-> <<"A">>, metric_total |-> 0]>>,
   <<[zone |-> <<"A">>, metric_total |-> 10], [zone |-> <<"B">>, metric_total |-> 5]>>,
   <<[zone |-> <<"A">>, metric_total |-> 0], [zone |-> <<"B">>, metric_total |-> 10]>>,
   <<[zone |-> <<"A">>, metric_total |-> 0], [zone |-> <<"B">>, metric_total |-> 0]>>}

InitMap ==
  /\ geojson = <<>>
  /\ zone_df = <<>>
  /\ layer = <<>>
  /\ mprev = <<>>
  /\ mpc = "load"

\* one more feature in the boundary file
AddFeature ==
  /\ mpc = "load"
  /\ Len(geojson) < MaxFeatures
  /\ \E p \in PropChoices :
       geojson' = Append(geojson, [properties |-> p, geometry |-> Len(geojson) + 1])
  /\ UNCHANGED <<zone_df, layer, mprev, mpc>>

\* render_zone_map(df, geojson_path, metric) with zdf = zone_totals(df, metric):
\* nothing is drawn for an empty zdf; load_geojson hands out the file's content
RenderZoneMap ==
  /\ \E zdf \in ZoneTables :
       /\ zone_df' = zdf
       /\ IF zdf = <<>>
          THEN mpc' = "info" /\ UNCHANGED layer
          ELSE mpc' = "rendered" /\ layer' = choropleth_layer(geojson, zdf)
  /\ mprev' = <<>>
  /\ UNCHANGED geojson

\* (a second call that writes only on the features it joined)
ChoroplethAgainJoinedOnly ==
  /\ mpc \in {"rendered", "again"}
  /\ \E zdf \in ZoneTables \ {<<>>} :
       /\ zone_df' = zdf
       /\ layer' = LET again == choropleth_layer(layer, zdf)
                   IN SeqOf([i \in 1..Len(layer) |->
                               IF again[i].properties.zone_key.kind = "str"
                                  /\ again[i].properties.zone_key.val \in totals_keys(join_keys(zdf))
                               THEN again[i] ELSE layer[i]], Len(layer))
  /\ mprev' = zone_df
  /\ mpc' = "again"
  /\ UNCHANGED geojson

\* _choropleth_layer(gj, zdf) once more on the features an earlier call annotated
ChoroplethAgain ==
  /\ mpc \in {"rendered", "again"}
  /\ \E zdf \in ZoneTables \ {<<>>} :
       /\ zone_df' = zdf
       /\ layer' = choropleth_layer(layer, zdf)
  /\ mprev' = zone_df
  /\ mpc' = "again"
  /\ UNCHANGED geojson

NextMap ==
  \/ AddFeature /\ UNCHANGED <<lookupVars, yoyVars, etlVars, cleanVars, pickVars, stdVars, filtVars>>
  \/ RenderZoneMap /\ UNCHANGED <<lookupVars, yoyVars, etlVars, cleanVars, pickVars, stdVars, filtVars>>
  \/ ChoroplethAgain /\ UNCHANGED <<lookupVars, yoyVars, etlVars, cleanVars, pickVars, stdVars, filtVars>>
InitMapStage ==
  InitLookupIdle /\ InitYoyIdle /\ InitMap /\ InitEtlIdle /\ InitCleanIdle /\ InitPickIdle
  /\ InitStdIdle /\ InitFiltIdle
SpecMap == InitMapStage /\ [][NextMap]_vars

(***************************************************************************)
(* Properties of _choropleth_layer, stated over the boundary file          *)
(* (geojson), the zone totals (zone_df) and the annotated features (layer).*)
(***************************************************************************)
\* feature i was joined to a row of the zone totals
Matched(i) ==
  /\ layer[i].properties.zone_key.kind = "str"
  /\ layer[i].properties.zone_key.val \in {r.zone : r \in Rows(zone_df)}
\* the total of the zone feature i was joined to
JoinedTotal(i) ==
  LET r == CHOOSE x \in Rows(zone_df) : x.zone = layer[i].properties.zone_key.val
  IN r.metric_total
\* what the render wrote on feature i besides its key
Annotation(i) == <<layer[i].properties.metric_total, layer[i].properties.fill_color>>

\* C12: a region whose zone key matches no row of the zone totals is annotated so
\* that it can be told from a matched region whose total is zero.
C12_JoinMissIsNotZero ==
  mpc = "rendered" =>
    \A i \in 1..Len(layer), j \in 1..Len(layer) :
      (~Matched(i) /\ Matched(j) /\ JoinedTotal(j) = 0) => Annotation(i) # Annotation(j)

\* the zone letter of a numeric zone id
LetterOfDigit(d) ==
  CASE d = "1" -> "A" [] d = "2" -> "B" [] d = "3" -> "C" [] d = "4" -> "D"
    [] d = "5" -> "E" [] d = "6" -> "F" [] d = "7" -> "G"
Digits1to7 == {"1", "2", "3", "4", "5", "6", "7"}

\* C13: a region that carries its zone under ZONE_ID as an integer 1..7 gets the
\* letter A..G as its join key.
C13_NumericZoneIdToLetter ==
  mpc = "rendered" =>
    \A i \in 1..Len(layer) :
      LET p == geojson[i].properties
      IN (/\ p.ZONE_ID.kind = "int"
          /\ Len(p.ZONE_ID.val) = 1
          /\ p.ZONE_ID.val[1] \in Digits1to7
          /\ p.ZONE.kind = "absent" /\ p.zone.kind = "absent" /\ p.Zone.kind = "absent")
         => layer[i].properties.zone_key = StrVal(<<LetterOfDigit(p.ZONE_ID.val[1])>>)

\* the key str(v).strip().upper() makes of a property value
KeyOfValue(v) == StrVal(upper_chars(str_strip(v.val)))
CommonNames == <<"ZONE", "Zone", "ZONE_ID", "LOB_ZONE">>
ZoneNames == <<"ZONE", "zone", "Zone", "ZONE_ID", "LOB_ZONE">>
Names(seq) == {seq[k] : k \in 1..Len(seq)}
HasValue(v) == v.kind \in {"str", "int"}

\* C14 as stated, with the list (ZONE, Zone, ZONE_ID, LOB_ZONE): the key comes from
\* a property of the list, and is null when none of the list is present.
C14_KeyFromCommonNames ==
  mpc = "rendered" =>
    \A i \in 1..Len(layer) :
      LET p == geojson[i].properties
          key == layer[i].properties.zone_key
      IN /\ (\A n \in Names(CommonNames) : p[n].kind = "absent") => key = Null
         /\ key # Null =>
              \E n \in Names(CommonNames) : HasValue(p[n]) /\ key = KeyOfValue(p[n])

\* C14, amended: the key is made of the first property, in the order ZONE, zone,
\* Zone, ZONE_ID, LOB_ZONE, whose value is neither null, empty nor zero; it is never
\* made of a property outside these five, and is null when none of them is present.
C14_KeyFromZoneNames ==
  mpc = "rendered" =>
    \A i \in 1..Len(layer) :
      LET p == geojson[i].properties
          key == layer[i].properties.zone_key
      IN /\ (\A n \in Names(ZoneNames) : p[n].kind = "absent") => key = Null
         /\ key # Null =>
              \E n \in Names(ZoneNames) : HasValue(p[n]) /\ key = KeyOfValue(p[n])
         /\ \A k \in 1..Len(ZoneNames) :
              (truthy(p[ZoneNames[k]]) /\ \A m \in 1..(k - 1) : ~truthy(p[ZoneNames[m]]))
                => key = KeyOfValue(p[ZoneNames[k]])

\* a rendered region that only carries a property outside the list, and one whose
\* key comes from the second listed property it carries
C14_Witness ==
  /\ mpc = "rendered"
  /\ \E i \in 1..Len(layer) :
       /\ geojson[i].properties.NAME = StrVal(<<"A">>)
       /\ layer[i].properties.zone_key = Null
  /\ \E i \in 1..Len(layer) :
       /\ geojson[i].properties.ZONE = StrVal(<<>>)
       /\ layer[i].properties.zone_key = StrVal(<<"B">>)

Annotated == mpc \in {"rendered", "again"}
SourceProps == {"ZONE", "zone", "Zone", "ZONE_ID", "LOB_ZONE", "NAME"}

\* C24: the annotated collection has the regions of the boundary file, in the same
\* number and order, each with its geometry and its own properties unchanged; only
\* the zone key, metric_total and fill_color are written.
C24_GeometryUntouched ==
  Annotated =>
    /\ Len(layer) = Len(geojson)
    /\ \A i \in 1..Len(geojson) :
         /\ layer[i].geometry = geojson[i].geometry
         /\ \A p \in SourceProps : layer[i].properties[p] = geojson[i].properties[p]
C24_Witness ==
  /\ mpc = "rendered"
  /\ Len(geojson) = 2
  /\ layer[1].geometry = 1 /\ layer[2].geometry = 2
  /\ layer[1].properties.fill_color # <<>> /\ geojson[1].properties.fill_color = <<>>

\* C28: after any sequence of calls on the same collection, the metric_total and
\* fill_color of every region are those a single call on the boundary file with the
\* most recent zone totals writes.
C28_LastCallOnly ==
  Annotated =>
    LET fresh == choropleth_layer(geojson, zone_df)
    IN \A i \in 1..Len(layer) :
         Annotation(i) = <<fresh[i].properties.metric_total, fresh[i].properties.fill_color>>
C28_Witness ==
  /\ mpc = "again"
  /\ mprev # zone_df
  /\ \E i \in 1..Len(layer) :
       /\ ~Matched(i)
       /\ choropleth_layer(geojson, mprev)[i].properties.metric_total = <<5>>
       /\ layer[i].properties.metric_total = <<0>>

(***************************************************************************)
(* The ETL run (clean_transform.main) and validate_frame.  A numeric       *)
(* column cell is a number, missing (NaN) or a text that does not parse    *)
(* as a number.  A batch row carries year, species, port (standing for     *)
(* the text columns port, county, lob_zone, weight_type), weight, value,   *)
(* trip_n and harv_n; every batch has all the required columns, as         *)
(* read_raw_csv checks.                                                    *)
(***************************************************************************)
Num(n) == [kind |-> "num", val |-> n]
NaN == [kind |-> "nan", val |-> 0]
Text == [kind |-> "text", val |-> 0]

NumericCols == <<"year", "weight", "value", "trip_n", "harv_n">>
MetricCols == <<"weight", "value", "trip_n", "harv_n">>

\* (a column name of _standardize is written as one token; its lower-case form is
\* that of the whole name)
lower_char(c) ==
  CASE c = "A" -> "a" [] c = "B" -> "b" [] c = "C" -> "c" [] c = "G" -> "g"
    [] c = "H" -> "h" [] c = "P" -> "p" [] c = "Q" -> "q"
    [] c = "Year" -> "year" [] c = "YEAR" -> "year" [] c = "Date" -> "date"
    [] c = "Species" -> "species" [] c = "Pounds" -> "pounds"
    [] c = "Landings" -> "landings" [] c = "Month" -> "month" [] c = "MONTH" -> "month"
    [] c = "YYYYMM" -> "yyyymm" [] c = "Gear" -> "gear" [] c = "Zone" -> "zone"
    [] c = "ZONE" -> "zone" [] c = "Port" -> "port" [] OTHER -> c

RECURSIVE lower_chars(_)
lower_chars(s) == IF s = <<>> THEN <<>> ELSE <<lower_char(Head(s))>> \o lower_chars(Tail(s))

\* Series.str.lower(): NA stays NA
str_lower(s) == IF isna(s) THEN NA ELSE lower_chars(s)

\* a cased character
is_cased(c) == upper_char(c) # c \/ lower_char(c) # c

RECURSIVE collapse_pairs(_)
collapse_pairs(s) ==
  IF Len(s) < 2 THEN s
  ELSE IF Head(s) \in Whitespace /\ s[2] \in Whitespace
  THEN <<" ">> \o collapse_pairs(Tail(Tail(s)))
  ELSE <<Head(s)>> \o collapse_pairs(Tail(s))

\* re.sub(r"\s+", " ", s): every run of whitespace becomes one space
RECURSIVE collapse_ws(_)
collapse_ws(s) ==
  IF s = <<>> THEN <<>>
  ELSE IF Head(s) \in Whitespace
  THEN <<" ">> \o collapse_ws(lstrip(s))
  ELSE <<Head(s)>> \o collapse_ws(Tail(s))

\* Series.str.replace(r"\s+", " ", regex=True): NA stays NA
str_collapse(s) == IF isna(s) THEN NA ELSE collapse_ws(s)

\* str.title(): a cased character is upper-cased after an uncased one (or at the
\* start) and lower-cased after a cased one
title_chars(s) ==
  SeqOf([i \in 1..Len(s) |->
           IF i = 1 \/ ~is_cased(s[i - 1]) THEN upper_char(s[i]) ELSE lower_char(s[i])],
        Len(s))

\* Series.str.title(): NA stays NA
str_title(s) == IF isna(s) THEN NA ELSE title_chars(s)

\* pd.to_numeric(errors="coerce"), cell by cell
to_numeric(c) == IF c.kind = "num" THEN c ELSE NaN

\* normalize_types(df)
normalize_types(t) ==
  SeqOf([i \in 1..Len(t) |->
           [year |-> to_numeric(t[i].year),
            weight |-> to_numeric(t[i].weight),
            value |-> to_numeric(t[i].value),
            trip_n |-> to_numeric(t[i].trip_n),
            harv_n |-> to_numeric(t[i].harv_n),
            species |-> str_title(str_collapse(str_strip(t[i].species))),
            port |-> str_collapse(str_strip(t[i].port))]], Len(t))

\* Series.between(1900, 2100): False for a missing cell
between_1900_2100(c) == c.kind # "nan" /\ 1900 <= c.val /\ c.val <= 2100

\* Series.unique(): the distinct values in order of first appearance
RECURSIVE unique(_)
unique(cells) ==
  IF cells = <<>> THEN <<>>
  ELSE LET init == unique(SubSeq(cells, 1, Len(cells) - 1))
           last == cells[Len(cells)]
       IN IF \E k \in 1..Len(init) : init[k] = last THEN init ELSE Append(init, last)

\* the year cells of the rows
year_cells(t) == SeqOf([i \in 1..Len(t) |-> t[i].year], Len(t))

\* the first of weight, value, trip_n, harv_n with a negative cell (0: none)
first_negative(t) ==
  LET neg == {k \in 1..Len(MetricCols) :
                \E i \in 1..Len(t) :
                  t[i][MetricCols[k]].kind # "nan" /\ t[i][MetricCols[k]].val < 0}
  IN IF neg = {} THEN 0 ELSE CHOOSE k \in neg : \A m \in neg : k <= m

NoError == [raised |-> FALSE, error |-> "none", bad |-> <<>>, column |-> ""]

validate_no_year_check(t) ==
  IF first_negative(t) # 0
  THEN [raised |-> TRUE, error |-> "Negative values detected", bad |-> <<>>,
        column |-> MetricCols[first_negative(t)]]
  ELSE NoError

\* validate(df): the ValueError it raises, if any
validate(t) ==
  IF ~ \A i \in 1..Len(t) : t[i].year.kind = "nan" \/ between_1900_2100(t[i].year)
  THEN [raised |-> TRUE, error |-> "Found out-of-range years",
        bad |-> unique(SelectSeq(year_cells(t),
                                 LAMBDA c : ~between_1900_2100(c) /\ c.kind # "nan")),
        column |-> "year"]
  ELSE IF first_negative(t) # 0
  THEN [raised |-> TRUE, error |-> "Negative values detected", bad |-> <<>>,
        column |-> MetricCols[first_negative(t)]]
  ELSE NoError

\* the first numeric column holding a cell pd.to_numeric(errors="raise") rejects (0: none)
first_unparseable(t) ==
  LET un == {k \in 1..Len(NumericCols) :
               \E i \in 1..Len(t) : t[i][NumericCols[k]].kind = "text"}
  IN IF un = {} THEN 0 ELSE CHOOSE k \in un : \A m \in un : k <= m

\* validate_frame(df), for a frame with all the required columns: the ValueError it
\* raises, if any; the list of bad years keeps the missing year cells
validate_frame(t) ==
  IF first_unparseable(t) # 0
  THEN [raised |-> TRUE, error |-> "Unable to parse string", bad |-> <<>>,
        column |-> NumericCols[first_unparseable(t)]]
  ELSE IF ~ \A i \in 1..Len(t) : t[i].year.kind = "nan" \/ between_1900_2100(t[i].year)
  THEN [raised |-> TRUE, error |-> "Out-of-range years",
        bad |-> unique(SelectSeq(year_cells(t), LAMBDA c : ~between_1900_2100(c))),
        column |-> "year"]
  ELSE IF first_negative(t) # 0
  THEN [raised |-> TRUE, error |-> "Negative values in", bad |-> <<>>,
        column |-> MetricCols[first_negative(t)]]
  ELSE NoError


\* select_species(df, species_list, select_all): case-insensitive exact match
select_species(t, species_list, select_all) ==
  IF select_all \/ species_list = <<>> THEN t
  ELSE LET targets == {lower_chars(species_list[k]) : k \in 1..Len(species_list)}
       IN SelectSeq(t, LAMBDA r : ~isna(r.species) /\ str_lower(r.species) \in targets)

\* split_by_species(df): its labels, sorted(df["species"].dropna().unique()) ...
species_vals(t) == sorted_keys({<<r.species>> : r \in {x \in Rows(t) : ~isna(x.species)}})
\* (the rows without a species put into every subset)
species_subset_or_missing(t, sp) == SelectSeq(t, LAMBDA r : r.species = sp \/ isna(r.species))

\* ... and the subset of label sp
species_subset(t, sp) == SelectSeq(t, LAMBDA r : r.species = sp)

\* _safe_slug(name), over the model's alphabet: lower-case, trimmed, every run of
\* characters outside a-z0-9- replaced by "_", "species" when nothing is left
safe_slug(name) ==
  LET l == collapse_ws(lstrip(rstrip(lower_chars(name))))
      u == SeqOf([i \in 1..Len(l) |-> IF l[i] \in Whitespace THEN "_" ELSE l[i]], Len(l))
  IN IF u = <<>> THEN <<"s", "p", "e", "c", "i", "e", "s">> ELSE u

\* write_master(df, outdir): the file it writes
write_master(t) == [name |-> <<"MaineDMR_processed.csv">>, rows |-> t]

\* write_species_subsets(df, outdir): the files it writes, one per label; n is the
\* suffix that makes the slug unique among the slugs seen (1: no suffix)
RECURSIVE subset_files(_, _, _)
subset_files(t, labels, seen) ==
  IF labels = <<>> THEN <<>>
  ELSE LET sp == Head(labels)[1]
           base == safe_slug(sp)
           n == CHOOSE k \in 1..(Cardinality(seen) + 1) :
                  /\ <<base, k>> \notin seen
                  /\ \A m \in 1..(k - 1) : <<base, m>> \in seen
       IN <<[name |-> <<"MaineDMR_", base, n>>, rows |-> species_subset(t, sp)]>>
          \o subset_files(t, Tail(labels), seen \cup {<<base, n>>})

write_species_subsets(t) ==
  IF t = <<>> THEN <<>> ELSE subset_files(t, species_vals(t), {})

\* the rows of a raw batch
GoodRow ==
  [year |-> Num(2000), species |-> <<"a", "b">>, port |-> <<"P">>, weight |-> Num(5),
   value |-> Num(5), trip_n |-> Num(1), harv_n |-> Num(1)]
EtlRows ==
  {GoodRow,
   [GoodRow EXCEPT !.year = NaN],
   [GoodRow EXCEPT !.year = Text],
   [GoodRow EXCEPT !.year = Num(1805)],
   [GoodRow EXCEPT !.year = Num(1900)],
   [GoodRow EXCEPT !.year = Num(2100)],
   [GoodRow EXCEPT !.year = Num(2101), !.species = <<"B">>],
   [GoodRow EXCEPT !.weight = Num(0 - 1)],
   [GoodRow EXCEPT !.weight = Text, !.value = NaN],
   [GoodRow EXCEPT !.harv_n = Num(0 - 1), !.trip_n = Num(0)],
   [GoodRow EXCEPT !.species = <<" ", "a", " ", " ", " ", "B", " ">>, !.port = <<"P", " ", " ", "Q">>],
   [GoodRow EXCEPT !.species = NA, !.year = Num(1805), !.value = Num(0 - 1)],
   [GoodRow EXCEPT !.species = NA, !.port = <<"Q">>]}

\* the command lines: --all or --species, with or without --by-species
EtlArgs ==
  {[select_all |-> a, species |-> sl, by_species |-> b] :
     a \in BOOLEAN, sl \in {<<>>, <<<<"A", "B">>>>}, b \in BOOLEAN}

NotCalled == [called |-> FALSE, table |-> <<>>, result |-> NoError]

InitEtl ==
  /\ eargs \in EtlArgs
  /\ raw = <<>>
  /\ edf = <<>>
  /\ epc = "read"
  /\ eerror = NoError
  /\ files = <<>>
  /\ frame = NotCalled

\* one more row in the raw file read by read_raw_csv
ReadRow ==
  /\ epc = "read"
  /\ ~frame.called
  /\ Len(raw) < MaxBatch
  /\ \E r \in EtlRows : raw' = Append(raw, r)
  /\ UNCHANGED <<eargs, edf, epc, eerror, files, frame>>

\* df = normalize_types(df)
NormalizeTypes ==
  /\ epc = "read"
  /\ edf' = normalize_types(raw)
  /\ epc' = "normalized"
  /\ UNCHANGED <<eargs, raw, eerror, files, frame>>

\* validate(df)
Validate ==
  /\ epc = "normalized"
  /\ eerror' = validate(edf)
  /\ epc' = IF validate(edf).raised THEN "failed" ELSE "validated"
  /\ UNCHANGED <<eargs, raw, edf, files, frame>>

WriteMasterUnchecked ==
  /\ epc \in {"normalized", "validated"}
  /\ edf' = select_species(edf, eargs.species, eargs.select_all)
  /\ files' = Append(files, write_master(edf'))
  /\ epc' = "master"
  /\ UNCHANGED <<eargs, raw, eerror, frame>>

\* df_sel = select_species(...); master_path = write_master(df_sel, args.outdir)
WriteMaster ==
  /\ epc = "validated"
  /\ edf' = select_species(edf, eargs.species, eargs.select_all)
  /\ files' = Append(files, write_master(edf'))
  /\ epc' = "master"
  /\ UNCHANGED <<eargs, raw, eerror, frame>>

\* if args.by_species: written = write_species_subsets(df_sel, args.outdir)
WriteSubsets ==
  /\ epc = "master"
  /\ files' = IF eargs.by_species THEN files \o write_species_subsets(edf) ELSE files
  /\ epc' = "done"
  /\ UNCHANGED <<eargs, raw, edf, eerror, frame>>

\* validate_frame(df), on the batch as read or as normalized
ValidateFrame ==
  /\ epc \in {"read", "normalized"}
  /\ ~frame.called
  /\ LET t == IF epc = "read" THEN raw ELSE edf
     IN frame' = [called |-> TRUE, table |-> t, result |-> validate_frame(t)]
  /\ UNCHANGED <<eargs, raw, edf, epc, eerror, files>>

NextEtl ==
  \/ ReadRow /\ UNCHANGED <<lookupVars, yoyVars, mapVars, cleanVars, pickVars, stdVars, filtVars>>
  \/ NormalizeTypes /\ UNCHANGED <<lookupVars, yoyVars, mapVars, cleanVars, pickVars, stdVars, filtVars>>
  \/ Validate /\ UNCHANGED <<lookupVars, yoyVars, mapVars, cleanVars, pickVars, stdVars, filtVars>>
  \/ WriteMaster /\ UNCHANGED <<lookupVars, yoyVars, mapVars, cleanVars, pickVars, stdVars, filtVars>>
  \/ WriteSubsets /\ UNCHANGED <<lookupVars, yoyVars, mapVars, cleanVars, pickVars, stdVars, filtVars>>
  \/ ValidateFrame /\ UNCHANGED <<lookupVars, yoyVars, mapVars, cleanVars, pickVars, stdVars, filtVars>>
InitEtlStage ==
  InitLookupIdle /\ InitYoyIdle /\ InitMapIdle /\ InitEtl /\ InitCleanIdle /\ InitPickIdle
  /\ InitStdIdle /\ InitFiltIdle
SpecEtl == InitEtlStage /\ [][NextEtl]_vars

(***************************************************************************)
(* Properties of the ETL run and of the validators.                        *)
(***************************************************************************)
\* a number outside 1900..2100
OutOfRange(c) == c.kind = "num" /\ (c.val < 1900 \/ c.val > 2100)
\* a number below zero
Negative(c) == c.kind = "num" /\ c.val < 0
\* every number of the table is acceptable; a cell that is not a number is skipped
Acceptable(t) ==
  \A i \in 1..Len(t) :
    /\ ~OutOfRange(t[i].year)
    /\ \A k \in 1..Len(MetricCols) : ~Negative(t[i][MetricCols[k]])
\* the out-of-range years of the table
OffendingYears(t) == {t[i].year : i \in {j \in 1..Len(t) : OutOfRange(t[j].year)}}
\* every numeric-column cell is a number or missing
Numeric(t) ==
  \A i \in 1..Len(t), k \in 1..Len(NumericCols) : t[i][NumericCols[k]].kind # "text"
Entries(seq) == {seq[k] : k \in 1..Len(seq)}

\* C15: validate, and validate_frame on a table of numbers and missing cells, raise
\* exactly when some year is outside 1900..2100 or some weight, value, trip_n or
\* harv_n is negative (missing cells aside); when a year is out of range the error
\* lists every out-of-range year, and nothing else but (validate_frame) the
\* missing-year marker.
C15_ValidateExactly ==
  /\ epc \in {"validated", "failed"} =>
       /\ eerror.raised <=> ~Acceptable(edf)
       /\ eerror.raised <=> (epc = "failed")
       /\ OffendingYears(edf) # {} => Entries(eerror.bad) = OffendingYears(edf)
  /\ (frame.called /\ Numeric(frame.table)) =>
       /\ frame.result.raised <=> ~Acceptable(frame.table)
       /\ OffendingYears(frame.table) # {} =>
            /\ OffendingYears(frame.table) \subseteq Entries(frame.result.bad)
            /\ Entries(frame.result.bad) \subseteq OffendingYears(frame.table) \cup {NaN}

\* a batch with a good row and a row of year 1805, rejected by both validators
C15_Witness ==
  /\ epc = "failed"
  /\ Len(edf) = 2
  /\ \E i \in 1..2 : Acceptable(<<edf[i]>>)
  /\ eerror.bad = <<Num(1805)>>
  /\ frame.called
  /\ frame.result.bad = <<Num(1805)>>

\* the raw batch would pass once its unparseable cells count as missing
RawAcceptable == Acceptable(raw)

\* C16: the ETL main has written a file only if validation of the whole batch
\* returned without error, and has written none if validation raised.
C16_WriteOnlyAfterValidation ==
  /\ files # <<>> => (epc \in {"master", "done"} /\ ~eerror.raised /\ RawAcceptable)
  /\ epc = "failed" => files = <<>>

\* a batch with one good and one bad row is rejected and nothing is written
C16_Witness ==
  /\ epc = "failed"
  /\ files = <<>>
  /\ Len(raw) = 2
  /\ \E i \in 1..2 : Acceptable(<<raw[i]>>)

\* C17: numeric coercion never rejects a batch: normalize_types turns every
\* unparseable year, weight, value, trip_n and harv_n cell into a missing one and
\* keeps the numbers, and validation (validate, validate_frame) raises only for an
\* out-of-range year or a negative value.
C17_CoercionNeverRejects ==
  /\ epc # "read" =>
       \A i \in 1..Len(raw), k \in 1..Len(NumericCols) :
         LET c == NumericCols[k]
         IN (epc \in {"normalized", "validated", "failed"}) =>
              edf[i][c] = (IF raw[i][c].kind = "num" THEN raw[i][c] ELSE NaN)
  /\ epc = "failed" => ~RawAcceptable
  /\ (frame.called /\ frame.result.raised) => ~Acceptable(frame.table)

\* the species subsets of a finished run: the files written after the master
Split == epc = "done" /\ eargs.by_species
Subsets == SubSeq(files, 2, Len(files))
Labels == {r.species : r \in {x \in Rows(edf) : ~isna(x.species)}}
At(sp) == {i \in 1..Len(edf) : edf[i].species = sp}

\* C26: the split of a normalized and validated batch has one subset per species
\* label present; the subset of a label holds exactly the rows of that label, so a
\* row with a species is in exactly one subset and a subset never holds a row of
\* another species (or of none).
C26_SplitBySpecies ==
  Split =>
    /\ Len(Subsets) = Cardinality(Labels)
    /\ \A sp \in Labels :
         \E k \in 1..Len(Subsets) :
           /\ Rows(Subsets[k].rows) = {edf[i] : i \in At(sp)}
           /\ Len(Subsets[k].rows) = Cardinality(At(sp))
    /\ \A k \in 1..Len(Subsets) :
         \A r \in Rows(Subsets[k].rows), q \in Rows(Subsets[k].rows) :
           ~isna(r.species) /\ r.species = q.species
    /\ \A i \in 1..Len(edf) :
         ~isna(edf[i].species)
         => Cardinality({k \in 1..Len(Subsets) : edf[i] \in Rows(Subsets[k].rows)}) = 1
C26_Witness ==
  /\ Split
  /\ Len(Subsets) = 1 /\ Len(edf) = 2
  /\ \E i \in 1..Len(edf) : isna(edf[i].species)
  /\ Len(Subsets[1].rows) = 1


(***************************************************************************)
(* The dashboard cleaner (cleaning.prepare_dataframe).  Its table is its   *)
(* set of column names and its rows, each a function from the column       *)
(* names to cells.  A date cell is a timestamp (val is its yyyymmdd), a    *)
(* text that parses to one, a text that does not, or NaT.                  *)
(***************************************************************************)
DateVal(y) == [kind |-> "date", val |-> y]
DateText(y) == [kind |-> "datetext", val |-> y]
NaT == [kind |-> "nat", val |-> 0]
\* the missing value of an Int64 column
IntNA == [kind |-> "<NA>", val |-> 0]

\* rename_map of standardize_headers
rename_map(c) ==
  CASE c = "lob_zone" -> "zone" [] c = "trip_n" -> "trips_n"
    [] c = "harv_n" -> "harvesters_n" [] OTHER -> c

\* standardize_headers(df): df.rename(columns=rename_map); dup holds the names two
\* columns end up under
standardize_headers(t) ==
  LET cols == {rename_map(c) : c \in t.cols}
      orig(c) == CHOOSE o \in t.cols : rename_map(o) = c /\ (c \in t.cols => o = c)
  IN [cols |-> cols,
      dup |-> {c \in cols : Cardinality({o \in t.cols : rename_map(o) = c}) > 1},
      rows |-> SeqOf([i \in 1..Len(t.rows) |-> [c \in cols |-> t.rows[i][orig(c)]]],
                     Len(t.rows))]

\* pd.to_datetime(errors="coerce"), cell by cell
to_datetime(c) == IF c.kind \in {"date", "datetext"} THEN DateVal(c.val) ELSE NaT

\* Series.dt.year, cell by cell
dt_year(c) == IF c.kind = "date" THEN Num(c.val \div 10000) ELSE NaN

\* Series.astype("Int64"), for whole numbers and missing cells
astype_Int64(c) == IF c.kind = "num" THEN c ELSE IntNA

StripCols == {"species", "gear", "zone", "port", "county", "weight_type"}

\* clean_types(df)
clean_types(t) ==
  LET cols == IF "date" \in t.cols THEN t.cols \cup {"year"} ELSE t.cols
      cell(r, c) ==
        IF c = "date" THEN to_datetime(r[c])
        ELSE IF c = "year"
        THEN astype_Int64(to_numeric(IF "year" \in t.cols THEN r[c]
                                     ELSE dt_year(to_datetime(r["date"]))))
        ELSE IF c \in StripCols THEN str_strip(r[c])
        ELSE r[c]
  IN [cols |-> cols, dup |-> t.dup,
      rows |-> SeqOf([i \in 1..Len(t.rows) |-> [c \in cols |-> cell(t.rows[i], c)]],
                     Len(t.rows))]

\* list("ABCDEFG")
ZoneLetters == {<<"A">>, <<"B">>, <<"C">>, <<"D">>, <<"E">>, <<"F">>, <<"G">>}

normalize_zone_no_upper(t) ==
  LET cell(r, c) ==
        IF c = "zone"
        THEN LET z == str_strip(r[c])
             IN IF z \in ZoneLetters THEN z ELSE NA
        ELSE r[c]
  IN [cols |-> t.cols, dup |-> t.dup,
      rows |-> SeqOf([i \in 1..Len(t.rows) |-> [c \in t.cols |-> cell(t.rows[i], c)]],
                     Len(t.rows))]

\* normalize_zone(df)
normalize_zone(t) ==
  LET cell(r, c) ==
        IF c = "zone"
        THEN LET z == str_upper(str_strip(r[c]))
             IN IF z \in ZoneLetters THEN z ELSE NA
        ELSE r[c]
  IN [cols |-> t.cols, dup |-> t.dup,
      rows |-> SeqOf([i \in 1..Len(t.rows) |-> [c \in t.cols |-> cell(t.rows[i], c)]],
                     Len(t.rows))]

\* normalize_metrics(df)
normalize_metrics(t) ==
  LET cols == t.cols \cup (IF "weight" \in t.cols THEN {"landings_lbs"} ELSE {})
                     \cup (IF "value" \in t.cols THEN {"revenue_usd"} ELSE {})
      cell(r, c) ==
        IF c = "landings_lbs" THEN to_numeric(r["weight"])
        ELSE IF c = "revenue_usd" THEN to_numeric(r["value"])
        ELSE r[c]
  IN [cols |-> cols, dup |-> t.dup,
      rows |-> SeqOf([i \in 1..Len(t.rows) |-> [c \in cols |-> cell(t.rows[i], c)]],
                     Len(t.rows))]

\* prepare_dataframe(df): the table it returns, unless two columns are named zone
\* after the renaming, when out["zone"] is a DataFrame and .str raises
prepare_dataframe(t) ==
  LET renamed == standardize_headers([cols |-> t.cols, rows |-> t.rows])
  IN IF renamed.dup \cap StripCols # {}
     THEN [raised |-> TRUE, table |-> [cols |-> {}, rows |-> <<>>]]
     ELSE LET done == normalize_metrics(normalize_zone(clean_types(renamed)))
          IN [raised |-> FALSE, table |-> [cols |-> done.cols, rows |-> done.rows]]

\* the cleaner cpipe applied to table t
cleaner(pipe, t) ==
  IF pipe = "prepare_dataframe" THEN prepare_dataframe(t)
  ELSE [raised |-> FALSE, table |-> normalize_types(t)]

\* the column sets and cells of the tables handed to prepare_dataframe
CleanColumnSets ==
  {{"year", "lob_zone", "weight"}, {"date", "species", "zone"}, {"zone", "lob_zone"}}
CleanZones ==
  {NA, <<"A">>, <<" ", "g", " ">>, <<"h">>, <<"A", "B">>, <<"1">>, <<>>}
CleanCells ==
  [year : {Num(2000), Text}, date : {DateText(20010315), DateVal(20020101), Text},
   species : {NA, <<" ", "a">>}, zone : CleanZones,
   lob_zone : {NA, <<"A">>, <<" ", "g", " ">>, <<"h">>},
   weight : {Num(5), Text}]
CleanRows(cols) == {[c \in cols |-> v[c]] : v \in CleanCells}
\* the column holding the zone of an input table
ZoneCol(cols) == IF "zone" \in cols THEN "zone" ELSE "lob_zone"

InitClean ==
  /\ \/ cpipe = "normalize_types" /\ cin = <<>>
     \/ cpipe = "prepare_dataframe" /\ cin \in {[cols |-> k, rows |-> <<>>] : k \in CleanColumnSets}
  /\ cout = [raised |-> FALSE, table |-> <<>>]
  /\ cagain = [raised |-> FALSE, table |-> <<>>]
  /\ cpc = "input"

\* one more row in the table to clean
AddCleanRow ==
  /\ cpc = "input"
  /\ IF cpipe = "normalize_types"
     THEN /\ Len(cin) < MaxCleanRows
          /\ \E r \in EtlRows : cin' = Append(cin, r)
     ELSE /\ Len(cin.rows) < MaxCleanRows
          /\ \E r \in CleanRows(cin.cols) : cin' = [cin EXCEPT !.rows = Append(cin.rows, r)]
  /\ UNCHANGED <<cpipe, cout, cagain, cpc>>

\* out = prepare_dataframe(df), or df = normalize_types(df)
Clean ==
  /\ cpc = "input"
  /\ cout' = cleaner(cpipe, cin)
  /\ cpc' = IF cleaner(cpipe, cin).raised THEN "failed" ELSE "cleaned"
  /\ UNCHANGED <<cpipe, cin, cagain>>

\* the cleaner applied to its own output
CleanAgain ==
  /\ cpc = "cleaned"
  /\ cagain' = cleaner(cpipe, cout.table)
  /\ cpc' = "again"
  /\ UNCHANGED <<cpipe, cin, cout>>

NextClean ==
  \/ AddCleanRow /\ UNCHANGED <<lookupVars, yoyVars, mapVars, etlVars, pickVars, stdVars, filtVars>>
  \/ Clean /\ UNCHANGED <<lookupVars, yoyVars, mapVars, etlVars, pickVars, stdVars, filtVars>>
  \/ CleanAgain /\ UNCHANGED <<lookupVars, yoyVars, mapVars, etlVars, pickVars, stdVars, filtVars>>
InitCleanStage ==
  InitLookupIdle /\ InitYoyIdle /\ InitMapIdle /\ InitEtlIdle /\ InitClean /\ InitPickIdle
  /\ InitStdIdle /\ InitFiltIdle
SpecClean == InitCleanStage /\ [][NextClean]_vars

(***************************************************************************)
(* Properties of the cleaners.                                             *)
(***************************************************************************)
\* the trimmed upper-case form of a zone cell that is not missing
TrimUpper(z) == upper_chars(lstrip(rstrip(z)))
\* prepare_dataframe returned a table
Prepared == cpipe = "prepare_dataframe" /\ cpc \in {"cleaned", "again"}

\* C18: after normalize_zone every zone is one of A..G or missing; a zone is kept,
\* as its trimmed upper-case form, exactly when that form is one of A..G, and
\* becomes missing otherwise; no zone value makes the cleaner raise.
C18_ZoneIsLetterOrMissing ==
  /\ Prepared =>
       \A i \in 1..Len(cin.rows) :
         LET z == cin.rows[i][ZoneCol(cin.cols)]
             o == cout.table.rows[i]["zone"]
         IN /\ o \in ZoneLetters \cup {NA}
            /\ IF ~isna(z) /\ TrimUpper(z) \in ZoneLetters
               THEN o = TrimUpper(z)
               ELSE isna(o)
  /\ (cpipe = "prepare_dataframe" /\ cpc = "failed") => {"zone", "lob_zone"} \subseteq cin.cols

\* one zone kept in its trimmed upper-case form, one dropped
C18_Witness ==
  /\ Prepared
  /\ \E i \in 1..Len(cin.rows) :
       /\ cin.rows[i][ZoneCol(cin.cols)] = <<" ", "g", " ">>
       /\ cout.table.rows[i]["zone"] = <<"G">>
  /\ \E i \in 1..Len(cin.rows) :
       /\ cin.rows[i][ZoneCol(cin.cols)] = <<"h">>
       /\ isna(cout.table.rows[i]["zone"])

\* C19: the cleaner applied to its own output returns a table equal to that output:
\* same columns, same values, same missing cells.
C19_CleanerIdempotent ==
  cpc = "again" => (~cagain.raised /\ cagain.table = cout.table)

\* a table the first cleaning changed, cleaned again: by prepare_dataframe (year
\* taken from the date, zone upper-cased) and by normalize_types (species re-spaced)
C19_Witness ==
  /\ cpc = "again"
  /\ \/ /\ cpipe = "prepare_dataframe"
        /\ "date" \in cin.cols
        /\ \E i \in 1..Len(cin.rows) :
             /\ cin.rows[i]["zone"] = <<" ", "g", " ">>
             /\ cin.rows[i]["date"] = DateText(20010315)
             /\ cagain.table.rows[i]["year"] = Num(2001)
     \/ /\ cpipe = "normalize_types"
        /\ \E i \in 1..Len(cin) :
             /\ cin[i].species = <<" ", "a", " ", " ", " ", "B", " ">>
             /\ cagain.table[i].species = <<"A", " ", "B">>


(***************************************************************************)
(* The column resolver of io.py (_pick_col, and the copy of it nested in   *)
(* _standardize).  A column name is a text; None is the not-found result.  *)
(***************************************************************************)
None == <<"<None>">>

\* lower = {c.lower(): c for c in df.columns}: lower[key], the last column of that
\* lower-case form
lower_get(cols, key) ==
  LET last == CHOOSE i \in 1..Len(cols) :
                /\ lower_chars(cols[i]) = key
                /\ \A j \in (i + 1)..Len(cols) : lower_chars(cols[j]) # key
  IN cols[last]

pick_col_candidate(cols, candidates) ==
  LET names == {cols[i] : i \in 1..Len(cols)}
      keys == {lower_chars(cols[i]) : i \in 1..Len(cols)}
      exact == {k \in 1..Len(candidates) : candidates[k] \in names}
      loose == {k \in 1..Len(candidates) : lower_chars(candidates[k]) \in keys}
  IN IF exact # {} THEN candidates[CHOOSE k \in exact : \A m \in exact : k <= m]
     ELSE IF loose # {}
     THEN candidates[CHOOSE k \in loose : \A m \in loose : k <= m]
     ELSE None

\* _pick_col(df, candidates)
pick_col(cols, candidates) ==
  LET names == {cols[i] : i \in 1..Len(cols)}
      keys == {lower_chars(cols[i]) : i \in 1..Len(cols)}
      exact == {k \in 1..Len(candidates) : candidates[k] \in names}
      loose == {k \in 1..Len(candidates) : lower_chars(candidates[k]) \in keys}
  IN IF exact # {} THEN candidates[CHOOSE k \in exact : \A m \in exact : k <= m]
     ELSE IF loose # {}
     THEN lower_get(cols, lower_chars(candidates[CHOOSE k \in loose : \A m \in loose : k <= m]))
     ELSE None

\* the column names of the tables, and the candidate lists
ColumnNames ==
  {<<"a", "b">>, <<"A", "B">>, <<"A", "b">>, <<"a">>, <<"A">>, <<"a", "b", "c">>}
CandidateLists ==
  {<<<<"a", "b">>, <<"A", "b">>>>,
   <<<<"A", "b">>, <<"a", "b">>>>,
   <<<<"a", "b", "c">>, <<"a">>>>,
   <<<<"b">>, <<"A", "B">>>>,
   <<<<"a", "b">>>>}

InitPick ==
  /\ pcolumns = <<>>
  /\ pcands = <<>>
  /\ presult = None
  /\ ppc = "columns"

\* one more column in the table (column names are distinct)
AddColumn ==
  /\ ppc = "columns"
  /\ Len(pcolumns) < MaxColumns
  /\ \E c \in ColumnNames \ {pcolumns[i] : i \in 1..Len(pcolumns)} :
       pcolumns' = Append(pcolumns, c)
  /\ UNCHANGED <<pcands, presult, ppc>>

\* presult = _pick_col(df, candidates)
PickCol ==
  /\ \E candidates \in CandidateLists :
       /\ pcands' = candidates
       /\ presult' = pick_col(pcolumns, candidates)
  /\ ppc' = "picked"
  /\ UNCHANGED pcolumns

NextPick ==
  \/ AddColumn /\ UNCHANGED <<lookupVars, yoyVars, mapVars, etlVars, cleanVars, stdVars, filtVars>>
  \/ PickCol /\ UNCHANGED <<lookupVars, yoyVars, mapVars, etlVars, cleanVars, stdVars, filtVars>>
InitPickStage ==
  InitLookupIdle /\ InitYoyIdle /\ InitMapIdle /\ InitEtlIdle /\ InitCleanIdle /\ InitPick
  /\ InitStdIdle /\ InitFiltIdle
SpecPick == InitPickStage /\ [][NextPick]_vars

(***************************************************************************)
(* Properties of _pick_col.                                                *)
(***************************************************************************)
ColumnSet == {pcolumns[i] : i \in 1..Len(pcolumns)}
\* the candidates equal to a column name
ExactCandidates == {k \in 1..Len(pcands) : pcands[k] \in ColumnSet}
\* the candidates equal to a column name up to case
LooseCandidates ==
  {k \in 1..Len(pcands) : \E c \in ColumnSet : lower_chars(c) = lower_chars(pcands[k])}
First(S) == CHOOSE k \in S : \A m \in S : k <= m

\* C20: _pick_col returns the first candidate equal to a column name; if there is
\* none, a column equal up to case to the first candidate that has such a column;
\* None otherwise.  The result is always a column of the table or None, never a
\* name related to a candidate only as a substring.
C20_PickColResult ==
  ppc = "picked" =>
    /\ presult \in ColumnSet \cup {None}
    /\ IF ExactCandidates # {} THEN presult = pcands[First(ExactCandidates)]
       ELSE IF LooseCandidates # {}
       THEN /\ presult \in ColumnSet
            /\ lower_chars(presult) = lower_chars(pcands[First(LooseCandidates)])
       ELSE presult = None

\* no candidate is a column, the second one matches a column up to case, and the
\* table also holds a column that is a substring of the first candidate
C20_Witness ==
  /\ ppc = "picked"
  /\ pcands = <<<<"a", "b", "c">>, <<"a">>>>
  /\ pcolumns = <<<<"a", "b">>, <<"A">>>>
  /\ presult = <<"A">>


(***************************************************************************)
(* The Schema Normalizer of io.py (_standardize).  Its table is the        *)
(* sequence of its column names and its rows, each a function from the     *)
(* column names to cells; it raises when astype(int) meets a cell that is  *)
(* not a number.                                                           *)
(***************************************************************************)
DATE_CANDIDATES == <<<<"date">>, <<"landing_date">>, <<"landed_date">>, <<"observation_date">>>>
YEAR_CANDIDATES == <<<<"year">>, <<"Year">>, <<"YEAR">>>>
MONTH_CANDIDATES == <<<<"month">>, <<"Month">>, <<"MONTH">>, <<"month_num">>, <<"mo">>>>
YM_CANDIDATES == <<<<"yyyymm">>, <<"YYYYMM">>>>
SPECIES_CANDIDATES ==
  <<<<"species">>, <<"Species">>, <<"species_name">>, <<"species_group">>, <<"common_name">>>>
GEAR_CANDIDATES == <<<<"gear">>, <<"Gear">>, <<"gear_type">>>>
ZONE_CANDIDATES == <<<<"zone">>, <<"Zone">>, <<"ZONE">>, <<"lobster_zone">>>>
PORT_CANDIDATES == <<<<"port">>, <<"Port">>, <<"landing_port">>, <<"port_name">>>>
VALUE_CANDIDATES ==
  <<<<"value">>, <<"landings">>, <<"landed_weight_lbs">>, <<"pounds">>, <<"lbs">>,
    <<"weight_lbs">>, <<"landed_weight">>, <<"landings_lbs">>, <<"quantity">>,
    <<"landed_pounds">>>>
REVENUE_CANDIDATES ==
  <<<<"revenue_usd">>, <<"dockside_value">>, <<"ex_vessel_value">>, <<"exvessel_value">>,
    <<"value_usd">>, <<"revenue">>, <<"dollars">>>>

\* name in df.columns
has_col(t, name) == \E i \in 1..Len(t.cols) : t.cols[i] = name
col_names(t) == {t.cols[i] : i \in 1..Len(t.cols)}

\* df.rename(columns={old: new}, inplace=True)
rename_col(t, old, new) ==
  LET cols == SeqOf([i \in 1..Len(t.cols) |-> IF t.cols[i] = old THEN new ELSE t.cols[i]],
                    Len(t.cols))
      names == {cols[i] : i \in 1..Len(cols)}
  IN [cols |-> cols,
      rows |-> SeqOf([i \in 1..Len(t.rows) |->
                        [c \in names |-> t.rows[i][IF c = new THEN old ELSE c]]],
                     Len(t.rows))]

\* df[name] = cells: an existing column is replaced, a new one comes last
set_col(t, name, cells) ==
  LET cols == IF has_col(t, name) THEN t.cols ELSE Append(t.cols, name)
      names == {cols[i] : i \in 1..Len(cols)}
  IN [cols |-> cols,
      rows |-> SeqOf([i \in 1..Len(t.rows) |->
                        [c \in names |-> IF c = name THEN cells[i] ELSE t.rows[i][c]]],
                     Len(t.rows))]

\* the cells of column name, row by row
col_cells(t, name) == SeqOf([i \in 1..Len(t.rows) |-> t.rows[i][name]], Len(t.rows))

\* Series.astype(int) raises on a missing or non-numeric cell
astype_int_raises(t, name) == \E i \in 1..Len(t.rows) : t.rows[i][name].kind # "num"

\* pd.to_datetime(dict(year=y, month=m, day=1), errors="coerce")
first_of_month(y, m) ==
  IF 1678 <= y /\ y <= 2261 /\ 1 <= m /\ m <= 12 THEN DateVal(y * 10000 + m * 100 + 1)
  ELSE NaT

\* pd.to_datetime(s[0:4] + "-" + s[4:6] + "-01", errors="coerce") for the digits s of
\* a six-digit numeral; the digits of anything else give no date
packed_date(c) ==
  IF c.kind = "num" /\ 100000 <= c.val /\ c.val <= 999999
  THEN first_of_month(c.val \div 100, c.val % 100)
  ELSE NaT

\* (the DATE / YEAR block with a year alone tried before the packed numeral)
std_date_year_first(t) ==
  LET date_col == pick_col(t.cols, DATE_CANDIDATES)
      ycol == pick_col(t.cols, YEAR_CANDIDATES)
      mcol == pick_col(t.cols, MONTH_CANDIDATES)
      ym_col == pick_col(t.cols, YM_CANDIDATES)
      n == Len(t.rows)
  IN IF date_col # None
     THEN LET r == rename_col(t, date_col, <<"date">>)
              d == col_cells(r, <<"date">>)
          IN [raised |-> FALSE,
              table |-> set_col(r, <<"date">>, SeqOf([i \in 1..n |-> to_datetime(d[i])], n))]
     ELSE IF ycol # None /\ mcol # None
     THEN IF astype_int_raises(t, ycol) \/ astype_int_raises(t, mcol)
          THEN [raised |-> TRUE, table |-> t]
          ELSE [raised |-> FALSE,
                table |-> set_col(t, <<"date">>,
                            SeqOf([i \in 1..n |->
                                     first_of_month(t.rows[i][ycol].val, t.rows[i][mcol].val)],
                                  n))]
     ELSE IF ycol # None
     THEN IF astype_int_raises(t, ycol)
          THEN [raised |-> TRUE, table |-> t]
          ELSE LET y == set_col(t, <<"year">>, col_cells(t, ycol))
               IN [raised |-> FALSE,
                   table |-> set_col(y, <<"date">>,
                               SeqOf([i \in 1..n |-> first_of_month(y.rows[i][<<"year">>].val, 1)],
                                     n))]
     ELSE IF ym_col # None
     THEN [raised |-> FALSE,
           table |-> set_col(t, <<"date">>,
                             SeqOf([i \in 1..n |-> packed_date(t.rows[i][ym_col])], n))]
     ELSE [raised |-> FALSE, table |-> t]

\* the DATE / YEAR block of _standardize
std_date(t) ==
  LET date_col == pick_col(t.cols, DATE_CANDIDATES)
      ycol == pick_col(t.cols, YEAR_CANDIDATES)
      mcol == pick_col(t.cols, MONTH_CANDIDATES)
      ym_col == pick_col(t.cols, YM_CANDIDATES)
      n == Len(t.rows)
  IN IF date_col # None
     THEN LET r == rename_col(t, date_col, <<"date">>)
              d == col_cells(r, <<"date">>)
          IN [raised |-> FALSE,
              table |-> set_col(r, <<"date">>, SeqOf([i \in 1..n |-> to_datetime(d[i])], n))]
     ELSE IF ycol # None /\ mcol # None
     THEN IF astype_int_raises(t, ycol) \/ astype_int_raises(t, mcol)
          THEN [raised |-> TRUE, table |-> t]
          ELSE [raised |-> FALSE,
                table |-> set_col(t, <<"date">>,
                            SeqOf([i \in 1..n |->
                                     first_of_month(t.rows[i][ycol].val, t.rows[i][mcol].val)],
                                  n))]
     ELSE IF ym_col # None
     THEN [raised |-> FALSE,
           table |-> set_col(t, <<"date">>,
                             SeqOf([i \in 1..n |-> packed_date(t.rows[i][ym_col])], n))]
     ELSE IF ycol # None
     THEN IF astype_int_raises(t, ycol)
          THEN [raised |-> TRUE, table |-> t]
          ELSE LET y == set_col(t, <<"year">>, col_cells(t, ycol))
               IN [raised |-> FALSE,
                   table |-> set_col(y, <<"date">>,
                               SeqOf([i \in 1..n |-> first_of_month(y.rows[i][<<"year">>].val, 1)],
                                     n))]
     ELSE [raised |-> FALSE, table |-> t]

\* if "year" not in df.columns and "date" in df.columns: df["year"] = df["date"].dt.year
\* (a year column written even when there is no date)
std_year_placeholder(t) ==
  IF ~has_col(t, <<"year">>)
  THEN LET d == IF has_col(t, <<"date">>) THEN col_cells(t, <<"date">>)
                ELSE SeqOf([i \in 1..Len(t.rows) |-> NaT], Len(t.rows))
       IN set_col(t, <<"year">>, SeqOf([i \in 1..Len(d) |-> dt_year(d[i])], Len(d)))
  ELSE t

\* if "year" not in df.columns and "date" in df.columns: df["year"] = df["date"].dt.year
std_year(t) ==
  IF ~has_col(t, <<"year">>) /\ has_col(t, <<"date">>)
  THEN LET d == col_cells(t, <<"date">>)
       IN set_col(t, <<"year">>, SeqOf([i \in 1..Len(d) |-> dt_year(d[i])], Len(d)))
  ELSE t

\* c = _pick_col(df, candidates); if c and c != canon: rename c to canon
std_rename(t, candidates, canon) ==
  LET c == pick_col(t.cols, candidates)
  IN IF c # None /\ c # canon THEN rename_col(t, c, canon) ELSE t

\* if name in df.columns: df[name] = df[name].astype("string").str.strip()
std_strip(t, name) ==
  IF has_col(t, name)
  THEN LET cells == col_cells(t, name)
       IN set_col(t, name, SeqOf([i \in 1..Len(cells) |-> str_strip(cells[i])], Len(cells)))
  ELSE t

\* _standardize(df)
standardize(t) ==
  LET dated == std_date(t)
  IN IF dated.raised THEN [raised |-> TRUE, cols |-> <<>>, rows |-> <<>>]
     ELSE LET t1 == std_year(dated.table)
              t2 == std_rename(t1, SPECIES_CANDIDATES, <<"species">>)
              t3 == std_rename(t2, GEAR_CANDIDATES, <<"gear">>)
              t4 == std_strip(std_rename(t3, ZONE_CANDIDATES, <<"zone">>), <<"zone">>)
              t5 == std_strip(std_rename(t4, PORT_CANDIDATES, <<"port">>), <<"port">>)
              t6 == std_rename(t5, VALUE_CANDIDATES, <<"value">>)
              t7 == std_rename(t6, REVENUE_CANDIDATES, <<"revenue_usd">>)
              t8 == std_strip(std_strip(t7, <<"species">>), <<"gear">>)
          IN [raised |-> FALSE, cols |-> t8.cols, rows |-> t8.rows]


\* The column lists a landings file arrives with, and the cells a column of each
\* name holds.
StdColumnLists ==
  { <<<<"landing_date">>, <<"Year">>>>, <<<<"date">>, <<"year">>>>, <<<<"Date">>>>,
    <<<<"Year">>, <<"month">>>>, <<<<"year">>, <<"month">>, <<"yyyymm">>>>,
    <<<<"yyyymm">>>>, <<<<"yyyymm">>, <<"Year">>>>, <<<<"YEAR">>>>, <<<<"year">>>>,
    <<<<"month">>>>,
    <<<<"pounds">>, <<"landed_weight_lbs">>>>, <<<<"landed_weight_lbs">>, <<"pounds">>>>,
    <<<<"value">>, <<"pounds">>>>, <<<<"Pounds">>, <<"landings">>>>,
    <<<<"Species">>, <<"notes">>, <<"revenue">>>>,
    <<<<"Zone">>, <<"port_name">>, <<"gear_type">>>> }

StdCells(name) ==
  CASE name \in {<<"landing_date">>, <<"date">>, <<"Date">>} -> {DateText(20210315), Text}
    [] name \in {<<"year">>, <<"Year">>, <<"YEAR">>} -> {Num(2020), Num(2021), NaN}
    [] name = <<"month">> -> {Num(3), Num(13)}
    [] name = <<"yyyymm">> -> {Num(202103), NaN}
    [] name \in {<<"pounds">>, <<"Pounds">>, <<"landed_weight_lbs">>, <<"landings">>,
                 <<"value">>} -> {Num(1), Num(2)}
    [] name = <<"revenue">> -> {Num(5)}
    [] name \in {<<"Species">>, <<"Zone">>, <<"port_name">>} -> {<<" ", "A">>, <<"B">>}
    [] OTHER -> {<<"a">>}

NotStandardized == [raised |-> FALSE, cols |-> <<>>, rows |-> <<>>]

InitStd ==
  /\ \E cols \in StdColumnLists : sdf = [cols |-> cols, rows |-> <<>>]
  /\ sout = NotStandardized
  /\ spc = "input"

\* one more record of the landings file
AddStdRow ==
  /\ spc = "input"
  /\ Len(sdf.rows) < MaxStdRows
  /\ LET col(k) == sdf.cols[IF k <= Len(sdf.cols) THEN k ELSE 1]
     IN \E a \in StdCells(col(1)), b \in StdCells(col(2)), d \in StdCells(col(3)) :
          sdf' = [sdf EXCEPT !.rows =
                    Append(@, [c \in col_names(sdf) |->
                                 IF c = col(1) THEN a ELSE IF c = col(2) THEN b ELSE d])]
  /\ UNCHANGED <<sout, spc>>

\* out = _standardize(df)
Standardize ==
  /\ spc = "input"
  /\ sout' = standardize(sdf)
  /\ spc' = IF sout'.raised THEN "raised" ELSE "standardized"
  /\ UNCHANGED sdf

NextStd ==
  \/ AddStdRow /\ UNCHANGED <<lookupVars, yoyVars, mapVars, etlVars, cleanVars, pickVars, filtVars>>
  \/ Standardize /\ UNCHANGED <<lookupVars, yoyVars, mapVars, etlVars, cleanVars, pickVars, filtVars>>
InitStdStage ==
  InitLookupIdle /\ InitYoyIdle /\ InitMapIdle /\ InitEtlIdle /\ InitCleanIdle /\ InitPickIdle
  /\ InitStd /\ InitFiltIdle
SpecStd == InitStdStage /\ [][NextStd]_vars

(***************************************************************************)
(* Properties of _standardize.                                             *)
(***************************************************************************)
Standardized == spc = "standardized"
InCols(name) == \E i \in 1..Len(sdf.cols) : sdf.cols[i] = name
OutCols(name) == \E i \in 1..Len(sout.cols) : sout.cols[i] = name

\* C21: when the table has no column named value or landings but has both a column
\* named pounds and a column named landed_weight_lbs, the landed-quantity field
\* (value) of the result is the pounds column, and landed_weight_lbs keeps its name.
C21_PoundsBeforeLandedWeight ==
  (/\ Standardized
   /\ InCols(<<"pounds">>) /\ InCols(<<"landed_weight_lbs">>)
   /\ ~InCols(<<"value">>) /\ ~InCols(<<"landings">>))
  => /\ OutCols(<<"value">>) /\ OutCols(<<"landed_weight_lbs">>) /\ ~OutCols(<<"pounds">>)
     /\ \A i \in 1..Len(sdf.rows) : sout.rows[i][<<"value">>] = sdf.rows[i][<<"pounds">>]


\* The date-bearing columns of the input, found by their lower-case names.
Family(keys) == {c \in col_names(sdf) : lower_chars(c) \in keys}
DateCols == Family({<<"date">>, <<"landing_date">>, <<"landed_date">>, <<"observation_date">>})
YearCols == Family({<<"year">>})
MonthCols == Family({<<"month">>, <<"month_num">>, <<"mo">>})
YmCols == Family({<<"yyyymm">>})
HasSignal == DateCols # {} \/ YmCols # {} \/ YearCols # {}
Only(S) == CHOOSE c \in S : TRUE
Cell(i, S) == sdf.rows[i][Only(S)]
FirstDay(y, m) == IF m \in 1..12 THEN DateVal(y * 10000 + m * 100 + 1) ELSE NaT

\* the date that record i should carry, by the order date, (year, month), packed
\* numeral, year alone
ExpectedDate(i) ==
  IF DateCols # {}
  THEN IF Cell(i, DateCols).kind \in {"date", "datetext"}
       THEN DateVal(Cell(i, DateCols).val) ELSE NaT
  ELSE IF YearCols # {} /\ MonthCols # {}
  THEN FirstDay(Cell(i, YearCols).val, Cell(i, MonthCols).val)
  ELSE IF YmCols # {}
  THEN IF Cell(i, YmCols).kind = "num"
       THEN FirstDay(Cell(i, YmCols).val \div 100, Cell(i, YmCols).val % 100) ELSE NaT
  ELSE FirstDay(Cell(i, YearCols).val, 1)

\* C22: with a date-bearing column, every record of the result carries the date of
\* the first applicable source in the order explicit date, (year, month) pair,
\* packed year-month numeral, year alone; a year column exists, and where a date
\* was produced and the input had no column named year, the year is that date's.
C22_DateSynthesisOrder ==
  (Standardized /\ HasSignal)
  => /\ OutCols(<<"date">>) /\ OutCols(<<"year">>)
     /\ \A i \in 1..Len(sdf.rows) :
          /\ sout.rows[i][<<"date">>] = ExpectedDate(i)
          /\ (sout.rows[i][<<"date">>].kind = "date" /\ ~InCols(<<"year">>))
             => sout.rows[i][<<"year">>] = Num(sout.rows[i][<<"date">>].val \div 10000)
C22_Witness ==
  /\ Standardized
  /\ sdf.cols = <<<<"yyyymm">>, <<"Year">>>>
  /\ \E i \in 1..Len(sdf.rows) :
       /\ sdf.rows[i][<<"Year">>] = Num(2020)
       /\ sout.rows[i][<<"date">>] = DateVal(20210301)
       /\ sout.rows[i][<<"year">>] = Num(2021)

CanonicalKeys(canon) ==
  CASE canon = <<"species">> ->
         {<<"species">>, <<"species_name">>, <<"species_group">>, <<"common_name">>}
    [] canon = <<"gear">> -> {<<"gear">>, <<"gear_type">>}
    [] canon = <<"zone">> -> {<<"zone">>, <<"lobster_zone">>}
    [] canon = <<"port">> -> {<<"port">>, <<"landing_port">>, <<"port_name">>}
    [] canon = <<"value">> ->
         {<<"value">>, <<"landings">>, <<"landed_weight_lbs">>, <<"pounds">>, <<"lbs">>,
          <<"weight_lbs">>, <<"landed_weight">>, <<"landings_lbs">>, <<"quantity">>,
          <<"landed_pounds">>}
    [] canon = <<"revenue_usd">> ->
         {<<"revenue_usd">>, <<"dockside_value">>, <<"ex_vessel_value">>,
          <<"exvessel_value">>, <<"value_usd">>, <<"revenue">>, <<"dollars">>}
CanonicalFields ==
  {<<"species">>, <<"gear">>, <<"zone">>, <<"port">>, <<"value">>, <<"revenue_usd">>}

\* C23: a canonical field is in the result only if a column of the input resolved
\* to it, date and year are absent without a date-bearing column, no other column
\* is added and no record is dropped; a table without a date-bearing column never
\* raises, and an error is always a year or month cell that is not a number.
C23_UnresolvedStayAbsent ==
  /\ (spc # "input" /\ ~HasSignal)
     => Standardized /\ ~OutCols(<<"date">>) /\ ~OutCols(<<"year">>)
  /\ spc = "raised"
     => \E c \in YearCols \cup MonthCols, i \in 1..Len(sdf.rows) : sdf.rows[i][c].kind # "num"
  /\ Standardized
     => /\ \A canon \in CanonicalFields : OutCols(canon) <=> Family(CanonicalKeys(canon)) # {}
        /\ Len(sout.rows) = Len(sdf.rows)
        /\ Len(sout.cols) <= Len(sdf.cols) + 2
        /\ \A k \in 1..Len(sout.cols) :
             \/ k <= Len(sdf.cols) /\ sout.cols[k] \in CanonicalFields \cup {sdf.cols[k], <<"date">>}
             \/ k > Len(sdf.cols) /\ HasSignal /\ sout.cols[k] \in {<<"date">>, <<"year">>}
C23_Witness ==
  /\ Standardized
  /\ sdf.cols = <<<<"Species">>, <<"notes">>, <<"revenue">>>>
  /\ Len(sdf.rows) > 0
  /\ sout.cols = <<<<"species">>, <<"notes">>, <<"revenue_usd">>>>


(***************************************************************************)
(* The dashboard filters of queries/filters.py.  A row of the landings     *)
(* table carries its index label, year, species, port, zone and value; the *)
(* table has no county and no lob_zone column.  value is a landed          *)
(* quantity: a number that is not negative (validate rejects a negative    *)
(* one before the processed file is written) or missing.                   *)
(***************************************************************************)
FilterColumns == {"year", "species", "port", "zone", "value"}

\* _lc(s).isin(values), cell by cell: a missing cell is in no set
lc_isin(cell, values) == ~isna(cell) /\ lower_chars(str_strip(cell)) \in values

\* set(x.lower() for x in xs)
lower_set(xs) == {lower_chars(x) : x \in xs}

\* (the upper bound taken as exclusive)
year_in_range_exclusive(c, lo, hi) == c.kind = "num" /\ lo <= c.val /\ c.val < hi

\* (out["year"] >= lo) & (out["year"] <= hi), cell by cell: a missing year is not kept
year_in_range(c, lo, hi) == c.kind = "num" /\ lo <= c.val /\ c.val <= hi

\* t[mask]: the rows whose mask entry is True, in their order
RECURSIVE take(_, _)
take(t, mask) ==
  IF t = <<>> THEN <<>>
  ELSE (IF Head(mask) THEN <<Head(t)>> ELSE <<>>) \o take(Tail(t), Tail(mask))

\* filter_df(df, species, year_range, counties, ports, lob_zones)
filter_df(t, args) ==
  LET o1 == IF args.species # {} /\ "species" \in FilterColumns
            THEN take(t, SeqOf([i \in 1..Len(t) |->
                                  lc_isin(t[i].species, lower_set(args.species))], Len(t)))
            ELSE t
      o2 == IF args.year_range # <<>> /\ "year" \in FilterColumns
            THEN take(o1, SeqOf([i \in 1..Len(o1) |->
                                   year_in_range(o1[i].year, args.year_range[1],
                                                 args.year_range[2])], Len(o1)))
            ELSE o1
      o3 == IF args.counties # {} /\ "county" \in FilterColumns
            THEN take(o2, SeqOf([i \in 1..Len(o2) |->
                                   lc_isin(o2[i].county, lower_set(args.counties))], Len(o2)))
            ELSE o2
      o4 == IF args.ports # {} /\ "port" \in FilterColumns
            THEN take(o3, SeqOf([i \in 1..Len(o3) |->
                                   lc_isin(o3[i].port, lower_set(args.ports))], Len(o3)))
            ELSE o3
  IN IF args.lob_zones # {}
     THEN IF "zone" \in FilterColumns
          THEN take(o4, SeqOf([i \in 1..Len(o4) |->
                                 lc_isin(o4[i].zone, lower_set(args.lob_zones))], Len(o4)))
          ELSE IF "lob_zone" \in FilterColumns
          THEN take(o4, SeqOf([i \in 1..Len(o4) |->
                                 lc_isin(o4[i].lob_zone, lower_set(args.lob_zones))], Len(o4)))
          ELSE o4
     ELSE o4

\* (a missing value counted as a landing)
fillna_with_one(c) == IF c.kind = "num" THEN c.val ELSE 1

\* x[metric_col].fillna(0), cell by cell
fillna_zero(c) == IF c.kind = "num" THEN c.val ELSE 0

\* groupby("port", dropna=False)["_m"].sum() at the group of port key, over the
\* first n rows
RECURSIVE group_sum(_, _, _)
group_sum(t, key, n) ==
  IF n = 0 THEN 0
  ELSE group_sum(t, key, n - 1) + (IF t[n].port = key THEN fillna_zero(t[n].value) ELSE 0)

\* the index of that groupby: the ports in sorted order, the missing port last
port_index(t) ==
  LET keys == {t[i].port : i \in 1..Len(t)}
      named == sorted_keys({<<k>> : k \in keys \ {NA}})
  IN SeqOf([k \in 1..Len(named) |-> named[k][1]], Len(named))
       \o (IF NA \in keys THEN <<NA>> ELSE <<>>)

\* active_ports(df, metric_col="value")
active_ports(t) ==
  IF "port" \notin FilterColumns \/ "value" \notin FilterColumns THEN <<>>
  ELSE LET g == port_index(t)
           nonzero == take(g, SeqOf([k \in 1..Len(g) |-> group_sum(t, g[k], Len(t)) # 0],
                                    Len(g)))
           stripped == SeqOf([k \in 1..Len(nonzero) |-> str_strip(nonzero[k])], Len(nonzero))
       IN take(stripped, SeqOf([k \in 1..Len(stripped) |-> ~isna(stripped[k])],
                               Len(stripped)))

\* filter_out_zero_ports(df, metric_col="value")
filter_out_zero_ports(t) ==
  LET keep == Rows(active_ports(t))
  IN IF keep = {} \/ "port" \notin FilterColumns THEN <<>>
     ELSE take(t, SeqOf([i \in 1..Len(t) |->
                           ~isna(t[i].port) /\ str_strip(t[i].port) \in keep], Len(t)))

\* the rows of the landings table and the filters of the dashboard
FilterRows ==
  { [year |-> Num(2019), species |-> <<"A">>, port |-> <<"P">>, zone |-> <<"A">>,
     value |-> Num(5)],
    [year |-> Num(2020), species |-> <<" ", "a">>, port |-> <<" ", "P">>, zone |-> <<"A">>,
     value |-> Num(0)],
    [year |-> Num(2020), species |-> <<"B">>, port |-> <<"P">>, zone |-> <<" ", "b">>,
     value |-> NaN],
    [year |-> Num(2021), species |-> <<"B">>, port |-> <<"Q">>, zone |-> <<"A">>,
     value |-> Num(0)],
    [year |-> Num(2021), species |-> <<"A">>, port |-> <<"Q">>, zone |-> <<" ", "b">>,
     value |-> Num(3)],
    [year |-> NaN, species |-> <<"A">>, port |-> <<"Q">>, zone |-> NA, value |-> NaN],
    [year |-> Num(2019), species |-> NA, port |-> NA, zone |-> <<"A">>, value |-> Num(5)],
    [year |-> Num(2022), species |-> <<"B">>, port |-> <<" ", "P">>, zone |-> <<"A">>,
     value |-> Num(3)] }
NoFilters ==
  [species |-> {}, year_range |-> <<>>, counties |-> {}, ports |-> {}, lob_zones |-> {}]
FilterArgs ==
  {NoFilters}
    \cup {[NoFilters EXCEPT !.year_range = yr] :
            yr \in {<<2019, 2020>>, <<2020, 2020>>, <<2020, 2021>>, <<2021, 2019>>}}
    \cup {[NoFilters EXCEPT !.species = {<<"A">>}, !.year_range = <<2019, 2021>>],
          [NoFilters EXCEPT !.ports = {<<"P">>}],
          [NoFilters EXCEPT !.counties = {<<"A">>}, !.lob_zones = {<<"B">>}]}

InitFilt ==
  /\ fdf = <<>>
  /\ fargs = NoFilters
  /\ fout = <<>>
  /\ fports = <<>>
  /\ fkept = <<>>
  /\ fpc = "input"

\* one more row of the landings table, labelled by the RangeIndex
AddFilterRow ==
  /\ fpc = "input"
  /\ Len(fdf) < MaxFilterRows
  /\ \E r \in FilterRows :
       fdf' = Append(fdf, [index |-> Len(fdf), year |-> r.year, species |-> r.species,
                           port |-> r.port, zone |-> r.zone, value |-> r.value])
  /\ UNCHANGED <<fargs, fout, fports, fkept, fpc>>

\* out = filter_df(df, **args)
FilterDf ==
  /\ fpc = "input"
  /\ \E args \in FilterArgs :
       /\ fargs' = args
       /\ fout' = filter_df(fdf, args)
  /\ fpc' = "filtered"
  /\ UNCHANGED <<fdf, fports, fkept>>

\* active_ports(df, "value") and filter_out_zero_ports(df, "value")
ZeroPorts ==
  /\ fpc = "input"
  /\ fports' = active_ports(fdf)
  /\ fkept' = filter_out_zero_ports(fdf)
  /\ fpc' = "ports"
  /\ UNCHANGED <<fdf, fargs, fout>>

NextFilt ==
  \/ AddFilterRow /\ UNCHANGED <<lookupVars, yoyVars, mapVars, etlVars, cleanVars, pickVars, stdVars>>
  \/ FilterDf /\ UNCHANGED <<lookupVars, yoyVars, mapVars, etlVars, cleanVars, pickVars, stdVars>>
  \/ ZeroPorts /\ UNCHANGED <<lookupVars, yoyVars, mapVars, etlVars, cleanVars, pickVars, stdVars>>
InitFiltStage ==
  InitLookupIdle /\ InitYoyIdle /\ InitMapIdle /\ InitEtlIdle /\ InitCleanIdle /\ InitPickIdle
  /\ InitStdIdle /\ InitFilt
SpecFilt == InitFiltStage /\ [][NextFilt]_vars

(***************************************************************************)
(* Properties of the filters.                                              *)
(***************************************************************************)
YearOnly ==
  /\ fargs.year_range # <<>>
  /\ fargs.species = {} /\ fargs.counties = {} /\ fargs.ports = {} /\ fargs.lob_zones = {}
YearWithin(r) ==
  r.year.kind = "num" /\ fargs.year_range[1] <= r.year.val /\ r.year.val <= fargs.year_range[2]
InOrder(t) == \A j, k \in 1..Len(t) : j < k => t[j].index < t[k].index

\* C25: with a year range (lo, hi) and no other filter, filter_df returns exactly the
\* rows whose year is within lo <= year <= hi, unchanged and in their original order.
C25_YearRangeInclusive ==
  (fpc = "filtered" /\ YearOnly)
  => /\ Rows(fout) = {r \in Rows(fdf) : YearWithin(r)}
     /\ InOrder(fout)
C25_Witness ==
  /\ fpc = "filtered" /\ YearOnly
  /\ fargs.year_range[1] < fargs.year_range[2]
  /\ Len(fdf) = 2 /\ Len(fout) = 1
  /\ fout[1].year = Num(fargs.year_range[2])
  /\ fout[1] = fdf[2]

\* the ports with a value that is neither zero nor missing
Landed(r) == ~isna(r.port) /\ r.value.kind = "num" /\ r.value.val # 0
ActivePorts == {str_strip(r.port) : r \in {x \in Rows(fdf) : Landed(x)}}

====
